---------------------------- MODULE Spec2Model ----------------------------
(***************************************************************************)
(* CogniFlow engines (knowledge-graph-engine.ts, lms-store.ts) as state    *)
(* machines.                                                               *)
(*                                                                         *)
(* Numbers.  The code computes in IEEE binary64.  The model computes      *)
(* exactly over the rationals where the quantities are ratios of small    *)
(* integers (edge weights and their threshold, Louvain gains: compared    *)
(* after multiplying by a positive common denominator), in decimal fixed  *)
(* point with quantum 1/EpsInv = 0.0001, rounding to nearest, for the     *)
(* mastery update, and in 4-digit decimal floating point where the code   *)
(* calls Math.exp and multiplies probabilities (3PL, Fisher information,  *)
(* EAP).  buildGraph hands its weights to louvainCluster in thousandths.  *)
(***************************************************************************)
EXTENDS Integers, Sequences, FiniteSets, TLC

VARIABLES
    \* ---- louvainCluster(nodes, edges) ----
    nodes,          \* string[]: the node ids, in call order
    edges,          \* {source, target, weight}[]
    communities,    \* Map<string, number>: node id -> community id
    improved,       \* let improved
    maxIterations,  \* let maxIterations
    nodeIdx,        \* position of `for (const node of nodes)` (1-based)
    lpc,            \* control point of louvainCluster
    passMoves,      \* history: passMoves[p] = nodes moved during pass p
    divided,        \* history: the gain division by totalWeight was evaluated
    \* ---- updateMastery(prevPL, correct), applied answer after answer ----
    pL,             \* the mastery P(L) held by the caller, in units of 0.0001
    prevPL,         \* the argument prevPL of the last call
    lastCorrect,    \* the argument correct of the last call
    called,         \* updateMastery has returned at least once
    correctRun,     \* history: correct answers in a row so far, up to MaxRun
    \* ---- updateTheta(responses, priorTheta) ----
    irtResponses,   \* the argument responses: {item, correct}[]
    thetaPrior,     \* the argument priorTheta, in thousandths
    theta,          \* the value returned, in thousandths
    tpc,            \* "call" before updateTheta has run, "done" after
    \* ---- selectNextItem(theta, itemBank, usedIds) ----
    ability,        \* the argument theta, in fifths
    bank,           \* the argument itemBank: IRTItem[]
    used,           \* the argument usedIds: Set<string>
    nextItem,       \* the value returned: <<>> for null, <<item>> for an item
    spc,            \* "call" before selectNextItem has run, "done" after
    \* ---- buildGraph(logs) ----
    sessionLogs,    \* the argument logs: {concept, isCorrect, timestamp}[]
    conceptIds,     \* const conceptIds
    graphEdges,     \* const edges: GraphEdge[]
    graphNodes,     \* const nodes: {id, community, degree}[]
    gpc,            \* control point of buildGraph
    \* ---- shouldTriggerSocratic(params) ----
    socraticParams,   \* the argument params
    socraticDecision, \* the SocraticDecision returned
    kpc,              \* "call" before shouldTriggerSocratic has run, "done" after
    \* ---- detectCheating(signals) ----
    cheatSignals,  \* the argument signals
    cheatRisk,  \* the CheatRisk returned: score and flagged
    cpc, \* "call" before detectCheating has run, "done" after
    \* ---- detectGuessing(response, allResponses) ----
    guessResponse,  \* the argument response
    guessHistory,  \* the argument allResponses
    guessingResult,  \* the GuessingResult returned
    dpc, \* "call" before detectGuessing has run, "done" after
    \* ---- thetaToScore(theta) ----
    scoreCalls, \* history: <<theta, score>> of the last two calls, the newest last
    \* ---- the wall clock ----
    now, \* Date.now(), in hours like the timestamps of the logs
    \* ---- updateStability(state, correct) ----
    masteryState,  \* the MasteryState held by the caller
    stabilityPrev,  \* <<state>> passed to the last call of updateStability, <<>> before it
    stabilityCorrect, \* the argument correct of the last call
    \* ---- two invocations with the same arguments ----
    repeatOp,  \* the operation invoked twice
    repeatArgs,  \* the arguments of both invocations
    repeatFirst,  \* <<value>> returned by the first invocation, <<>> before it returns
    repeatSecond,  \* <<value>> returned by the second invocation
    rpc, \* "first", "second": the invocation awaited; "done" after both
    \* ---- POST /api/analyze-behavior ----
    request,  \* req: the method and the body
    reply,  \* res: the status and the JSON body, <<>> before the reply
    handlerIrt,  \* history: the list irtResponses handed to updateTheta
    handlerStreak,  \* history: <<wrongStreakOnConcept>> handed to shouldTriggerSocratic, <<>> when it is not called
    hpc, \* "request" before the handler has run, "replied" after
    \* ---- prerequisiteStrength(conceptA, conceptB) ----
    prereqArgs,  \* <<conceptA, conceptB>>
    prereqForward,  \* prerequisiteStrength(conceptA, conceptB)
    prereqBackward,  \* prerequisiteStrength(conceptB, conceptA)
    ppc  \* "call", "exchanged" after the first lookup, "done" after the second

louvainVars == <<nodes, edges, communities, improved, maxIterations, nodeIdx,
                 lpc, passMoves, divided>>

masteryVars == <<pL, prevPL, lastCorrect, called, correctRun>>

thetaVars == <<irtResponses, thetaPrior, theta, tpc>>

selectVars == <<ability, bank, used, nextItem, spc>>

graphVars == <<sessionLogs, conceptIds, graphEdges, graphNodes, gpc>>

socraticVars == <<socraticParams, socraticDecision, kpc>>

cheatVars == <<cheatSignals, cheatRisk, cpc>>

guessVars == <<guessResponse, guessHistory, guessingResult, dpc>>

scoreVars == <<scoreCalls>>

clockVars == <<now>>

stabilityVars == <<masteryState, stabilityPrev, stabilityCorrect>>

repeatVars == <<repeatOp, repeatArgs, repeatFirst, repeatSecond, rpc>>

handlerVars == <<request, reply, handlerIrt, handlerStreak, hpc>>

prereqVars == <<prereqArgs, prereqForward, prereqBackward, ppc>>

vars == <<louvainVars, masteryVars, thetaVars, selectVars, graphVars, socraticVars, cheatVars, guessVars, scoreVars, clockVars, stabilityVars, repeatVars, handlerVars, prereqVars>>

\* What each engine leaves alone
notLouvain == <<masteryVars, thetaVars, selectVars, graphVars, socraticVars, cheatVars, guessVars, scoreVars, clockVars, stabilityVars, repeatVars, handlerVars, prereqVars>>
notMastery == <<louvainVars, thetaVars, selectVars, graphVars, socraticVars, cheatVars, guessVars, scoreVars, clockVars, stabilityVars, repeatVars, handlerVars, prereqVars>>
notTheta == <<louvainVars, masteryVars, selectVars, graphVars, socraticVars, cheatVars, guessVars, scoreVars, clockVars, stabilityVars, repeatVars, handlerVars, prereqVars>>
notSelect == <<louvainVars, masteryVars, thetaVars, graphVars, socraticVars, cheatVars, guessVars, scoreVars, clockVars, stabilityVars, repeatVars, handlerVars, prereqVars>>
notGraph == <<masteryVars, thetaVars, selectVars, socraticVars, cheatVars, guessVars, scoreVars, clockVars, stabilityVars, repeatVars, handlerVars, prereqVars>>
notSocratic == <<louvainVars, masteryVars, thetaVars, selectVars, graphVars, cheatVars, guessVars, scoreVars, clockVars, stabilityVars, repeatVars, handlerVars, prereqVars>>
notCheat == <<louvainVars, masteryVars, thetaVars, selectVars, graphVars, socraticVars, guessVars, scoreVars, clockVars, stabilityVars, repeatVars, handlerVars, prereqVars>>
notGuess == <<louvainVars, masteryVars, thetaVars, selectVars, graphVars, socraticVars, cheatVars, scoreVars, clockVars, stabilityVars, repeatVars, handlerVars, prereqVars>>
notScore == <<louvainVars, masteryVars, thetaVars, selectVars, graphVars, socraticVars, cheatVars, guessVars, clockVars, stabilityVars, repeatVars, handlerVars, prereqVars>>
notClock == <<louvainVars, masteryVars, thetaVars, selectVars, graphVars, socraticVars, cheatVars, guessVars, scoreVars, stabilityVars, repeatVars, handlerVars, prereqVars>>
notStability == <<louvainVars, masteryVars, thetaVars, selectVars, graphVars, socraticVars, cheatVars, guessVars, scoreVars, clockVars, repeatVars, handlerVars, prereqVars>>
notRepeat == <<louvainVars, masteryVars, thetaVars, selectVars, graphVars, socraticVars, cheatVars, guessVars, scoreVars, clockVars, stabilityVars, handlerVars, prereqVars>>
notHandler == <<louvainVars, masteryVars, thetaVars, selectVars, graphVars, socraticVars, cheatVars, guessVars, scoreVars, clockVars, stabilityVars, repeatVars, prereqVars>>
notRepeatOrGraph == <<masteryVars, thetaVars, selectVars, socraticVars, cheatVars, guessVars, scoreVars, clockVars, stabilityVars, handlerVars, prereqVars>>
notPrereq == <<louvainVars, masteryVars, thetaVars, selectVars, graphVars, socraticVars, cheatVars, guessVars, scoreVars, clockVars, stabilityVars, repeatVars, handlerVars>>

----------------------------------------------------------------------------
(* Bounds of the model *)
MaxNodes == 3
MaxEdges == 2
MaxWeight == 2
MaxRun == 9
MaxResponses == 3
MaxBank == 3
MaxLogs == 3
MaxSoloDays == 6
MaxStreak == 2
MaxQuestions == 4
MaxHistory == 11
MaxThetaSteps == 125
MaxTicks == 2
MaxReviews == 200
MaxRepeatLogs == 2
MaxPosted == 2

\* The ids the bounded inputs are drawn from.
NodeIds == <<"a", "b", "c", "d", "e">>

----------------------------------------------------------------------------
(* JavaScript Map: an insertion-ordered list of <<key, value>> pairs *)

MapHas(m, k) == \E i \in 1..Len(m) : m[i][1] = k

MapGet(m, k, dflt) ==
    IF MapHas(m, k) THEN m[CHOOSE i \in 1..Len(m) : m[i][1] = k][2] ELSE dflt

MapSet(m, k, v) ==
    IF MapHas(m, k)
    THEN [i \in 1..Len(m) |-> IF m[i][1] = k THEN <<k, v>> ELSE m[i]]
    ELSE Append(m, <<k, v>>)

RECURSIVE SumSeq(_)
SumSeq(s) == IF s = <<>> THEN 0 ELSE Head(s) + SumSeq(Tail(s))

Range(s) == {s[i] : i \in 1..Len(s)}

----------------------------------------------------------------------------
(* louvainCluster: knowledge-graph-engine.ts 151-228 *)

\* communities.get(x) of a key that was never set
Undefined == -1

MAX_ITERATIONS == 20

\* nodes.forEach(n => communities.set(n, 0))
InitialCommunitiesAllZero(ns) == [n \in Range(ns) |-> 0]

\* nodes.forEach((n, i) => communities.set(n, i))
InitialCommunities(ns) ==
    [n \in Range(ns) |-> (CHOOSE i \in 1..Len(ns) :
                             ns[i] = n /\ \A j \in (i+1)..Len(ns) : ns[j] # n) - 1]

\* edges.reduce((s, e) => s + e.weight, 0)
TotalWeight(es) == SumSeq([i \in 1..Len(es) |-> es[i].weight])

\* adj: nodeId -> Map<neighborId, weight>, built edge by edge; an endpoint
\* that is no node is skipped by the optional chaining.
RECURSIVE AddEdges(_, _, _)
AddEdges(adj, es, i) ==
    IF i > Len(es) THEN adj
    ELSE LET e == es[i]
             a1 == IF e.source \in DOMAIN adj
                   THEN [adj EXCEPT ![e.source] =
                            MapSet(@, e.target, MapGet(@, e.target, 0) + e.weight)]
                   ELSE adj
             a2 == IF e.target \in DOMAIN a1
                   THEN [a1 EXCEPT ![e.target] =
                            MapSet(@, e.source, MapGet(@, e.source, 0) + e.weight)]
                   ELSE a1
         IN  AddEdges(a2, es, i + 1)

Adjacency(ns, es) == AddEdges([n \in Range(ns) |-> <<>>], es, 1)

\* degree: sum of the node's adjacency values
Degree(ns, es) ==
    LET adj == Adjacency(ns, es)
    IN  [n \in Range(ns) |-> SumSeq([i \in 1..Len(adj[n]) |-> adj[n][i][2]])]

ComOf(com, n) == IF n \in DOMAIN com THEN com[n] ELSE Undefined

\* weightToCom: Map<community, weight>, filled in adjacency order
RECURSIVE WeightToCom(_, _, _, _)
WeightToCom(adjN, com, i, acc) ==
    IF i > Len(adjN) THEN acc
    ELSE LET nCom == ComOf(com, adjN[i][1])
         IN  WeightToCom(adjN, com, i + 1,
                         MapSet(acc, nCom, MapGet(acc, nCom, 0) + adjN[i][2]))

\* degSumInCom.get(c) ?? 0
DegSumInCom(ns, deg, com, c) ==
    SumSeq([i \in 1..Len(ns) |-> IF com[ns[i]] = c THEN deg[ns[i]] ELSE 0])

\* gain = kIinC / totalWeight - (sigma * kI) / (m2 * m2), times m2 * m2 > 0
\* (m2 = 2 * totalWeight), so that the comparisons are exact.
GainScaled(kIinC, sigma, kI, totalWeight) ==
    kIinC * 4 * totalWeight - sigma * kI

\* weightToCom.forEach: if (gain > bestGain) { bestGain = gain; bestCom = com }
RECURSIVE BestOf(_, _, _, _, _, _, _, _, _)
BestOf(w2c, i, ns, deg, com, node, tw, bestGain, bestCom) ==
    IF i > Len(w2c) THEN bestCom
    ELSE LET c     == w2c[i][1]
             kIinC == w2c[i][2]
             kI    == deg[node]
             sigma == DegSumInCom(ns, deg, com, c)
                        - (IF c = com[node] THEN kI ELSE 0)
             gain  == GainScaled(kIinC, sigma, kI, tw)
         IN  IF gain > bestGain
             THEN BestOf(w2c, i + 1, ns, deg, com, node, tw, gain, c)
             ELSE BestOf(w2c, i + 1, ns, deg, com, node, tw, bestGain, bestCom)

\* The body of `for (const node of nodes)`: the community the node ends in.
BestCom(ns, es, com, node) ==
    LET adj == Adjacency(ns, es)
        deg == Degree(ns, es)
        w2c == WeightToCom(adj[node], com, 1, <<>>)
    IN  BestOf(w2c, 1, ns, deg, com, node, TotalWeight(es), 0, com[node])

\* The entries <<com, gain>> of weightToCom.forEach, in iteration order, the
\* gains times m2 * m2
GainList(ns, es, com, node) ==
    LET adj == Adjacency(ns, es)
        deg == Degree(ns, es)
        w2c == WeightToCom(adj[node], com, 1, <<>>)
        kI  == deg[node]
    IN  [i \in 1..Len(w2c) |->
            <<w2c[i][1],
              GainScaled(w2c[i][2],
                         DegSumInCom(ns, deg, com, w2c[i][1])
                           - (IF w2c[i][1] = com[node] THEN kI ELSE 0),
                         kI, TotalWeight(es))>>]

\* Renumber communities 0, 1, 2... in Map (= node) order
RECURSIVE IdMap(_, _, _, _)
IdMap(ns, com, i, idMap) ==
    IF i > Len(ns) THEN idMap
    ELSE LET c == com[ns[i]]
         IN  IdMap(ns, com, i + 1,
                   IF MapHas(idMap, c) THEN idMap
                   ELSE Append(idMap, <<c, Len(idMap)>>))

\* Renumbered without the renumbering
RenumberedNot(ns, com) == com

Renumbered(ns, com) ==
    LET idMap == IdMap(ns, com, 1, <<>>)
    IN  [n \in DOMAIN com |-> MapGet(idMap, com[n], Undefined)]

----------------------------------------------------------------------------
(* Mastery engine: knowledge-graph-engine.ts 347-379 *)

\* Probabilities are held in units of 1/EpsInv = 0.0001, the code's clamp
\* epsilon: the clamp bounds 0.0001 and 0.9999 are 1 and EpsInv - 1.
EpsInv == 10000

\* BKT constants, in hundredths
P_INIT == 30
P_LEARN == 9
P_GUESS == 20
P_SLIP == 10

Min(a, b) == IF a < b THEN a ELSE b
Max(a, b) == IF a > b THEN a ELSE b

RECURSIVE Gcd(_, _)
Gcd(a, b) == IF b = 0 THEN a ELSE Gcd(b, a % b)

\* a / b (b > 0, a >= 0) to the nearest integer
RoundDiv(a, b) == (a + b \div 2) \div b

\* A rational <<numerator, denominator>> in lowest terms
Reduced(n, d) == LET g == Gcd(n, d) IN IF g = 0 THEN <<0, 1>> ELSE <<n \div g, d \div g>>

\* pCorrect and pWrong, in units of 1 / (100 * EpsInv)
PCorrect(p) == p * (100 - P_SLIP) + (EpsInv - p) * P_GUESS
PWrong(p) == p * P_SLIP + (EpsInv - p) * (100 - P_GUESS)

\* numerator / (denominator || 1e-9): 1e-9 is 1/1000 of the unit
OrEpsilon(n, d) == IF d = 0 THEN <<n * 1000, 1>> ELSE Reduced(n, d)

\* pLGivenObs, an exact rational
PLGivenObs(p, correct) ==
    IF correct THEN OrEpsilon(p * (100 - P_SLIP), PCorrect(p))
               ELSE OrEpsilon(p * P_SLIP, PWrong(p))

\* pLNext = pLGivenObs + (1 - pLGivenObs) * P_LEARN, to the nearest 0.0001
PLNext(obs) ==
    RoundDiv((100 * obs[1] + (obs[2] - obs[1]) * P_LEARN) * (EpsInv \div 100), obs[2])

\* updateMastery with the answer taken for its opposite
updateMasteryInverted(p, correct) ==
    Min(EpsInv - 1, Max(1, PLNext(PLGivenObs(p, ~correct))))

\* updateMastery without the clamp of line 378
updateMasteryNoClamp(p, correct) == PLNext(PLGivenObs(p, correct))

\* updateMastery clamping to [0.0001, 1]
updateMasteryClampOne(p, correct) ==
    Min(EpsInv, Max(1, PLNext(PLGivenObs(p, correct))))

\* updateMastery taking the posterior of a wrong answer to be the prior
updateMasteryWrongKeepsPrior(p, correct) ==
    Min(EpsInv - 1, Max(1, PLNext(IF correct THEN PLGivenObs(p, correct) ELSE <<p, EpsInv>>)))

\* return Math.min(0.9999, Math.max(0.0001, pLNext))
updateMastery(p, correct) ==
    Min(EpsInv - 1, Max(1, PLNext(PLGivenObs(p, correct))))

\* pL = updateMastery(pL, r.isCorrect), one answer
UpdateMastery(correct) ==
    /\ pL' = updateMastery(pL, correct)
    /\ prevPL' = pL
    /\ lastCorrect' = correct
    /\ called' = TRUE
    /\ correctRun' = IF correct THEN Min(correctRun + 1, MaxRun) ELSE 0

AnswerCorrect == UpdateMastery(TRUE) /\ UNCHANGED notMastery
AnswerWrong == UpdateMastery(FALSE) /\ UNCHANGED notMastery

MasteryNext == AnswerCorrect \/ AnswerWrong

----------------------------------------------------------------------------
(* Decimal floating point with 4 significant digits, standing for binary64: *)
(* <<m, e>> is m * 10^e with 1000 <= m <= 9999; zero is <<0, 0>>.  All the  *)
(* numbers held this way are >= 0.                                          *)

RECURSIVE Norm(_, _)
Norm(m, e) ==
    IF m = 0 THEN <<0, 0>>
    ELSE IF m >= 10000 THEN Norm(RoundDiv(m, 10), e + 1)
    ELSE IF m < 1000 THEN Norm(m * 10, e - 1)
    ELSE <<m, e>>

RECURSIVE Pow10(_)
Pow10(n) == IF n = 0 THEN 1 ELSE 10 * Pow10(n - 1)

DZero == <<0, 0>>
DOne == <<1000, -3>>

DMul(x, y) == Norm(x[1] * y[1], x[2] + y[2])

\* x / y, y # 0
DDiv(x, y) == Norm((x[1] * 100000) \div y[1], x[2] - y[2] - 5)

\* x + y: a term below the last digit of the other is absorbed
DAdd(x, y) ==
    IF x[1] = 0 THEN y
    ELSE IF y[1] = 0 THEN x
    ELSE LET hi == IF x[2] >= y[2] THEN x ELSE y
             lo == IF x[2] >= y[2] THEN y ELSE x
             d  == hi[2] - lo[2]
         IN  IF d > 4 THEN hi ELSE Norm(hi[1] * Pow10(d) + lo[1], lo[2])

\* x - y for x >= y >= 0
DSub(x, y) ==
    IF y[1] = 0 THEN x
    ELSE IF x[2] - y[2] > 4 THEN x
    ELSE Norm(x[1] * Pow10(x[2] - y[2]) - y[1], y[2])

\* x < y
DLess(x, y) ==
    IF y[1] = 0 THEN FALSE
    ELSE IF x[1] = 0 THEN TRUE
    ELSE x[2] < y[2] \/ (x[2] = y[2] /\ x[1] < y[1])

\* Math.exp(-0.2 * k), k = 0..9, and Math.exp(-2 * j), j = 0..20
ExpFifths ==
    <<<<1000, -3>>, <<8187, -4>>, <<6703, -4>>, <<5488, -4>>, <<4493, -4>>,
      <<3679, -4>>, <<3012, -4>>, <<2466, -4>>, <<2019, -4>>, <<1653, -4>>>>
ExpTwos ==
    <<<<1000, -3>>, <<1353, -4>>, <<1832, -5>>, <<2479, -6>>, <<3355, -7>>,
      <<4540, -8>>, <<6144, -9>>, <<8315, -10>>, <<1125, -10>>, <<1523, -11>>,
      <<2061, -12>>, <<2789, -13>>, <<3775, -14>>, <<5109, -15>>, <<6914, -16>>,
      <<9358, -17>>, <<1266, -17>>, <<1714, -18>>, <<2320, -19>>, <<3139, -20>>,
      <<4248, -21>>>>

\* Math.exp(0.2 * n) for an integer n with |n| < 210
RECURSIVE Exp5(_)
Exp5(n) ==
    IF n <= 0 THEN DMul(ExpFifths[((-n) % 10) + 1], ExpTwos[((-n) \div 10) + 1])
    ELSE DDiv(DOne, Exp5(-n))

----------------------------------------------------------------------------
(* IRT engine: lms-store.ts 304-439.  Abilities and difficulties lie on the *)
(* quadrature grid, in fifths (theta = 0.2 * t); a is an integer; c is in   *)
(* units of 0.0001.  An item is [id, a, b, c].                              *)

\* c and 1 - c
GuessOf(item) == Norm(item.c, -4)
OneMinusC(item) == Norm(EpsInv - item.c, -4)

\* const exp = Math.exp(-a * (theta - b))
ExpTerm(t, item) == Exp5(-(item.a * (t - item.b)))

\* threeParamLogistic: c + (1 - c) / (1 + exp)
threeParamLogistic(t, item) ==
    DAdd(GuessOf(item), DDiv(OneMinusC(item), DAdd(DOne, ExpTerm(t, item))))

\* P - c = (1 - c) / (1 + exp) and 1 - P = (1 - c) * exp / (1 + exp): the
\* subtractions of the code, which binary64 carries out to 16 digits (every
\* exp of the bounded inputs is above 1e-14), without cancelling 4 digits.
PMinusC(t, item) == DDiv(OneMinusC(item), DAdd(DOne, ExpTerm(t, item)))
OneMinusP(t, item) ==
    DDiv(DMul(OneMinusC(item), ExpTerm(t, item)), DAdd(DOne, ExpTerm(t, item)))

\* fisherInformation: a^2 (P - c)^2 / ((1 - c)^2 P (1 - P)), 0 below 1e-12
FISHER_GUARD == <<1000, -15>>

fisherInformation(t, item) ==
    LET P == threeParamLogistic(t, item)
        numerator == DMul(Norm(item.a * item.a, 0),
                          DMul(PMinusC(t, item), PMinusC(t, item)))
        denominator == DMul(DMul(OneMinusC(item), OneMinusC(item)),
                            DMul(P, OneMinusP(t, item)))
    IN  IF DLess(denominator, FISHER_GUARD) THEN DZero
        ELSE DDiv(numerator, denominator)

GRID_SIZE == 41

\* thetas[i] = -4 + 8 * i / (GRID_SIZE - 1), i = 0..GRID_SIZE-1, in fifths
GridTheta(i) == -20 + (40 * i) \div (GRID_SIZE - 1)

\* Math.exp(-0.5 * t * t) / Math.sqrt(2 * Math.PI) at t = 0.2 * k, k = 0..20
NormalPdf ==
    <<<<3989, -4>>, <<3910, -4>>, <<3683, -4>>, <<3332, -4>>, <<2897, -4>>,
      <<2420, -4>>, <<1942, -4>>, <<1497, -4>>, <<1109, -4>>, <<7895, -5>>,
      <<5399, -5>>, <<3547, -5>>, <<2239, -5>>, <<1358, -5>>, <<7915, -6>>,
      <<4432, -6>>, <<2384, -6>>, <<1232, -6>>, <<6119, -7>>, <<2919, -7>>,
      <<1338, -7>>>>

Prior(i) == LET t == GridTheta(i) IN NormalPdf[(IF t < 0 THEN -t ELSE t) + 1]

\* responses.reduce((acc, {item, correct}) => acc * (correct ? p : 1 - p), 1.0)
RECURSIVE Likelihood(_, _, _, _)
Likelihood(t, responses, k, acc) ==
    IF k > Len(responses) THEN acc
    ELSE LET r == responses[k]
         IN  Likelihood(t, responses, k + 1,
                        DMul(acc, IF r.correct THEN threeParamLogistic(t, r.item)
                                               ELSE OneMinusP(t, r.item)))

\* The array f with every entry computed once
Array(f) ==
    LET entries == {<<i, f[i]>> : i \in DOMAIN f}
    IN  [i \in DOMAIN f |-> (CHOOSE p \in entries : p[1] = i)[2]]

\* unnormalized[i] = likelihood[i] * prior[i]
Unnormalized(responses) ==
    Array([i \in 0..(GRID_SIZE - 1) |->
              DMul(Likelihood(GridTheta(i), responses, 1, DOne), Prior(i))])

\* f[lo] + ... + f[hi] over the integers
RECURSIVE ISum(_, _, _)
ISum(f, lo, hi) ==
    IF lo > hi THEN 0
    ELSE IF lo = hi THEN f[lo]
    ELSE ISum(f, lo, (lo + hi) \div 2) + ISum(f, (lo + hi) \div 2 + 1, hi)

\* The exponents of the non-zero entries of u, and the largest of them
Exponents(u) == {u[i][2] : i \in {j \in DOMAIN u : u[j][1] # 0}}
MaxExponent(u) == LET E == Exponents(u) IN CHOOSE e \in E : \A f \in E : f <= e

\* u[i] as an integer count of 10^ex (the digits below 10^ex are dropped)
AtExponent(x, ex) ==
    IF x[1] = 0 \/ ex - x[2] > 4 THEN 0 ELSE x[1] \div Pow10(ex - x[2])

Aligned(u) == LET ex == MaxExponent(u) IN [i \in DOMAIN u |-> AtExponent(u[i], ex)]

\* const sum = unnormalized.reduce((a, b) => a + b, 0)
Mass(u) ==
    IF Exponents(u) = {} THEN DZero
    ELSE Norm(ISum(Aligned(u), 0, GRID_SIZE - 1), MaxExponent(u))

\* if (sum < 1e-15)
UNDERFLOW == <<1000, -18>>

\* eap = thetas.reduce((acc, t, i) => acc + t * (unnormalized[i] / sum), 0),
\* in thousandths
Eap(u) ==
    LET w  == Aligned(u)
        tw == [i \in DOMAIN u |-> GridTheta(i) * 200 * w[i]]
    IN  RoundDiv(ISum(tw, 0, GRID_SIZE - 1), ISum(w, 0, GRID_SIZE - 1))

\* The clamp bounds of line 378 of lms-store.ts, in thousandths
THETA_MIN == -4000
THETA_MAX == 4000

\* updateTheta returning the prior clamped on its early exits
updateThetaClamped(responses, priorTheta) ==
    IF Len(responses) = 0 THEN Max(THETA_MIN, Min(THETA_MAX, priorTheta))
    ELSE LET u == Unnormalized(responses)
         IN  IF DLess(Mass(u), UNDERFLOW)
             THEN Max(THETA_MIN, Min(THETA_MAX, priorTheta))
             ELSE Max(THETA_MIN, Min(THETA_MAX, Eap(u)))

\* updateTheta(responses, priorTheta), the result in thousandths
updateTheta(responses, priorTheta) ==
    IF Len(responses) = 0 THEN priorTheta
    ELSE LET u == Unnormalized(responses)
         IN  IF DLess(Mass(u), UNDERFLOW) THEN priorTheta
             ELSE Max(THETA_MIN, Min(THETA_MAX, Eap(u)))

\* selectNextItem: null is <<>>, an item is <<item>>
Available(itemBank, usedIds) == SelectSeq(itemBank, LAMBDA item : item.id \notin usedIds)

RECURSIVE BestItem(_, _, _, _, _)
BestItem(t, available, k, bestItem, bestInfo) ==
    IF k > Len(available) THEN bestItem
    ELSE LET info == fisherInformation(t, available[k])
         IN  IF DLess(bestInfo, info)
             THEN BestItem(t, available, k + 1, available[k], info)
             ELSE BestItem(t, available, k + 1, bestItem, bestInfo)

\* selectNextItem scanning the available items from the last to the first
selectNextItemLast(t, itemBank, usedIds) ==
    LET forward == Available(itemBank, usedIds)
        available == [k \in 1..Len(forward) |-> forward[Len(forward) + 1 - k]]
    IN  IF Len(available) = 0 THEN <<>>
        ELSE <<BestItem(t, available, 2, available[1],
                        fisherInformation(t, available[1]))>>

selectNextItem(t, itemBank, usedIds) ==
    LET available == Available(itemBank, usedIds)
    IN  IF Len(available) = 0 THEN <<>>
        ELSE <<BestItem(t, available, 2, available[1],
                        fisherInformation(t, available[1]))>>

\* The items the bounded inputs are drawn from: q4 has the parameters of q1
ItemCatalogue ==
    << [id |-> "q1", a |-> 1, b |-> 0, c |-> 2500],
       [id |-> "q2", a |-> 4, b |-> 20, c |-> 0],
       [id |-> "q3", a |-> 4, b |-> -20, c |-> 0],
       [id |-> "q4", a |-> 1, b |-> 0, c |-> 2500] >>
ItemIds == {ItemCatalogue[k].id : k \in DOMAIN ItemCatalogue}

ResponseLists ==
    UNION {[1..n -> [item : {ItemCatalogue[k] : k \in 1..3}, correct : BOOLEAN]] :
              n \in 0..MaxResponses}
PriorThetas == {-5000, -4000, 0, 4000, 5000}

ItemBanks == UNION {[1..n -> Range(ItemCatalogue)] : n \in 0..MaxBank}
Abilities == {-20, -2, 0, 3, 20}

\* theta = updateTheta(irtResponses, thetaPrior)
UpdateTheta ==
    /\ tpc = "call"
    /\ theta' = updateTheta(irtResponses, thetaPrior)
    /\ tpc' = "done"
    /\ UNCHANGED <<irtResponses, thetaPrior, notTheta>>

ThetaNext == UpdateTheta

\* nextItem = selectNextItem(ability, bank, used)
SelectNextItem ==
    /\ spc = "call"
    /\ nextItem' = selectNextItem(ability, bank, used)
    /\ spc' = "done"
    /\ UNCHANGED <<ability, bank, used, notSelect>>

SelectNext == SelectNextItem

----------------------------------------------------------------------------
(* Graph builder: knowledge-graph-engine.ts 9-141 and 262-340.  A rational  *)
(* is <<n, d>> with d > 0; a timestamp is in hours.                         *)

\* ALPHA, BETA, GAMMA in hundredths
ALPHA == 50
BETA == 30
GAMMA == 20

\* PREREQUISITE_STRENGTH as <<concept, successor, strength in hundredths>>
PREREQUISITE_STRENGTH ==
    << <<"limits", "derivatives", 95>>, <<"limits", "continuity", 85>>,
       <<"derivatives", "integration", 90>>,
       <<"derivatives", "differential equations", 80>>,
       <<"integration", "differential equations", 85>>,
       <<"algebra", "calculus", 80>>, <<"algebra", "linear algebra", 75>>,
       <<"calculus", "differential equations", 80>>, <<"calculus", "statistics", 60>>,
       <<"linear algebra", "statistics", 70>>, <<"linear algebra", "algorithms", 55>>,
       <<"statistics", "machine learning", 80>>, <<"statistics", "probability", 85>>,
       <<"probability", "statistics", 75>>,
       <<"kinematics", "newton's laws", 90>>, <<"kinematics", "energy", 70>>,
       <<"newton's laws", "energy", 85>>, <<"newton's laws", "momentum", 80>>,
       <<"newton's laws", "waves", 60>>,
       <<"energy", "thermodynamics", 70>>, <<"energy", "waves", 65>>,
       <<"waves", "optics", 80>>, <<"waves", "electromagnetism", 60>>,
       <<"data structures", "algorithms", 90>>, <<"data structures", "graph theory", 75>>,
       <<"algorithms", "graph theory", 70>>, <<"algorithms", "machine learning", 60>>,
       <<"graph theory", "algorithms", 65>> >>

\* String.prototype.toLowerCase on the concept names of the bounded inputs
ToLowerCase(str) ==
    CASE str = "Limits" -> "limits"
      [] str = "Derivatives" -> "derivatives"
      [] str = "Topology" -> "topology"
      [] OTHER -> str

\* PREREQUISITE_STRENGTH[a]?.[b], Undefined when there is no such entry
Listed(a, b) ==
    LET hits == {k \in DOMAIN PREREQUISITE_STRENGTH :
                    PREREQUISITE_STRENGTH[k][1] = a /\ PREREQUISITE_STRENGTH[k][2] = b}
    IN  IF hits = {} THEN Undefined
        ELSE PREREQUISITE_STRENGTH[CHOOSE k \in hits : TRUE][3]

prerequisiteStrength(conceptA, conceptB) ==
    LET a == ToLowerCase(conceptA)
        b == ToLowerCase(conceptB)
    IN  IF Listed(a, b) # Undefined THEN <<Listed(a, b), 100>>
        ELSE IF Listed(b, a) # Undefined THEN <<Listed(b, a), 100>>
        ELSE <<0, 1>>

\* 86400000 ms
HOURS_PER_DAY == 24

\* Math.floor(log.timestamp / 86400000)
DayOf(log) == log.timestamp \div HOURS_PER_DAY

\* sessions: day -> the lower-cased concepts logged on that day
SessionDays(logs) == {DayOf(logs[k]) : k \in 1..Len(logs)}
ConceptsOn(day, logs) ==
    {ToLowerCase(logs[k].concept) : k \in {m \in 1..Len(logs) : DayOf(logs[m]) = day}}

coOccurrenceRate(conceptA, conceptB, logs) ==
    LET a == ToLowerCase(conceptA)
        b == ToLowerCase(conceptB)
        eitherOccur == Cardinality({d \in SessionDays(logs) :
                           a \in ConceptsOn(d, logs) \/ b \in ConceptsOn(d, logs)})
        coOccur == Cardinality({d \in SessionDays(logs) :
                       a \in ConceptsOn(d, logs) /\ b \in ConceptsOn(d, logs)})
    IN  IF eitherOccur > 0 THEN <<coOccur, eitherOccur>> ELSE <<0, 1>>

confusionCorrelation(conceptA, conceptB, logs) ==
    LET wrongA == SelectSeq(logs, LAMBDA l :
                      ToLowerCase(l.concept) = ToLowerCase(conceptA) /\ ~l.isCorrect)
        wrongASessions == {DayOf(wrongA[k]) : k \in 1..Len(wrongA)}
        wrongBInSameSession == SelectSeq(logs, LAMBDA l :
                      /\ ToLowerCase(l.concept) = ToLowerCase(conceptB)
                      /\ ~l.isCorrect
                      /\ DayOf(l) \in wrongASessions)
    IN  IF Len(wrongA) = 0 THEN <<0, 1>>
        ELSE <<Len(wrongBInSameSession), Len(wrongA)>>

\* ALPHA * prereq + BETA * coOccur + GAMMA * confusion
WeightedSum(prereq, coOccur, confusion) ==
    << ALPHA * prereq[1] * coOccur[2] * confusion[2]
         + BETA * coOccur[1] * prereq[2] * confusion[2]
         + GAMMA * confusion[1] * prereq[2] * coOccur[2],
       100 * prereq[2] * coOccur[2] * confusion[2] >>

calculateEdgeWeight(conceptA, conceptB, logs) ==
    WeightedSum(prerequisiteStrength(conceptA, conceptB),
                coOccurrenceRate(conceptA, conceptB, logs),
                confusionCorrelation(conceptA, conceptB, logs))

\* x < y, x <= y on rationals
RLess(x, y) == x[1] * y[2] < y[1] * x[2]
RLeq(x, y) == x[1] * y[2] <= y[1] * x[2]

\* if (w < 0.05) continue, with 0.05 as 5/100
EDGE_THRESHOLD == <<5, 100>>

\* an edge for every weight above 0
BelowThresholdZero(w) == RLeq(w, <<0, 1>>)

BelowThreshold(w) == RLess(w, EDGE_THRESHOLD)

\* conceptIds = Array.from(conceptMap.keys()): first appearances, lower-cased
RECURSIVE ConceptIds(_, _, _)
ConceptIds(logs, k, ids) ==
    IF k > Len(logs) THEN ids
    ELSE ConceptIds(logs, k + 1,
                    IF ToLowerCase(logs[k].concept) \in Range(ids) THEN ids
                    ELSE Append(ids, ToLowerCase(logs[k].concept)))

\* prereq > 0.7 ? 'prerequisite' : prereq > 0.3 ? 'application' : 'similar'
EdgeType(prereq) ==
    IF RLess(<<7, 10>>, prereq) THEN "prerequisite"
    ELSE IF RLess(<<3, 10>>, prereq) THEN "application"
    ELSE "similar"

GraphEdge(a, b, logs) ==
    [source |-> a, target |-> b,
     weight |-> calculateEdgeWeight(a, b, logs),
     prerequisiteStrength |-> prerequisiteStrength(a, b),
     coOccurrenceRate |-> coOccurrenceRate(a, b, logs),
     confusionCorrelation |-> confusionCorrelation(a, b, logs),
     type |-> EdgeType(prerequisiteStrength(a, b))]

\* for (i ...) for (j = i + 1 ...): the edges pushed, edgeSet the keys `${a}|${b}`
RECURSIVE EdgeLoop(_, _, _, _, _, _)
EdgeLoop(ids, logs, i, j, es, edgeSet) ==
    IF i > Len(ids) THEN es
    ELSE IF j > Len(ids) THEN EdgeLoop(ids, logs, i + 1, i + 2, es, edgeSet)
    ELSE IF BelowThreshold(calculateEdgeWeight(ids[i], ids[j], logs))
              \/ <<ids[i], ids[j]>> \in edgeSet
         THEN EdgeLoop(ids, logs, i, j + 1, es, edgeSet)
         ELSE EdgeLoop(ids, logs, i, j + 1,
                       Append(es, GraphEdge(ids[i], ids[j], logs)),
                       edgeSet \cup {<<ids[i], ids[j]>>})

\* The weight handed to louvainCluster, in thousandths
Thousandths(w) == RoundDiv(w[1] * 1000, w[2])

\* edges.map(e => ({ source, target, weight }))
ClusterEdges(es) ==
    [k \in 1..Len(es) |-> [source |-> es[k].source, target |-> es[k].target,
                           weight |-> Thousandths(es[k].weight)]]

\* degreeMap.get(id) ?? 0
DegreeOf(id, es) ==
    Cardinality({k \in 1..Len(es) : es[k].source = id})
        + Cardinality({k \in 1..Len(es) : es[k].target = id})

----------------------------------------------------------------------------
(* Behavioural analyzer, shouldTriggerSocratic: lms-store.ts 235-302.       *)
(* currentPL, prevPL, guessProbability and confidenceScore are in units of  *)
(* 0.0001; timeRemainingMs is Undefined when the caller leaves it out.      *)

\* The reason of the hard exit taken, "none" when none is
HardExitNoTime(params) ==
    IF params.mode = "exam" THEN "Exam mode"
    ELSE IF params.currentPL > 9000 THEN "Concept already mastered"
    ELSE "none"

HardExit(params) ==
    IF params.mode = "exam" THEN "Exam mode"
    ELSE IF params.currentPL > 9000 THEN "Concept already mastered"
    ELSE IF params.timeRemainingMs # Undefined /\ params.timeRemainingMs < 60000
         THEN "Time constraint < 60s"
    ELSE "none"

\* The conditions 1..5 of lines 266-294, in order: <<reason, points>>
TriggerConditions(params) ==
    << <<"Guessing detected", params.guessProbability > 6000, 3>>,
       <<"Wrong on this concept", params.wrongStreakOnConcept >= 2, 3>>,
       <<"Mastery dropped", params.currentPL - params.prevPL < -1500, 2>>,
       <<"In active learning zone",
         params.currentPL >= 4000 /\ params.currentPL <= 7000 /\ ~params.isCorrect, 1>>,
       <<"Low confidence", params.confidenceScore < 3000 /\ params.isCorrect, 2>> >>

\* triggerScore with the learning zone left out
TriggerScoreNoZone(params) ==
    SumSeq([k \in 1..5 |-> IF TriggerConditions(params)[k][2] /\ k # 4
                           THEN TriggerConditions(params)[k][3] ELSE 0])

\* let triggerScore, after the five conditions
TriggerScore(params) ==
    SumSeq([k \in 1..5 |-> IF TriggerConditions(params)[k][2]
                           THEN TriggerConditions(params)[k][3] ELSE 0])

\* reasons, after the five conditions
TriggerReasons(params) ==
    LET fired == SelectSeq(TriggerConditions(params), LAMBDA cond : cond[2])
    IN  [k \in 1..Len(fired) |-> fired[k][1]]

\* triggerScore >= 5 ? 'high' : triggerScore >= 3 ? 'medium' : 'low'
PriorityOf(triggerScore) ==
    IF triggerScore >= 5 THEN "high" ELSE IF triggerScore >= 3 THEN "medium" ELSE "low"

shouldTriggerSocratic(params) ==
    IF HardExit(params) # "none"
    THEN [shouldTrigger |-> FALSE, reasons |-> <<HardExit(params)>>, priority |-> "low"]
    ELSE [shouldTrigger |-> TriggerScore(params) >= 2,
          reasons |-> TriggerReasons(params),
          priority |-> PriorityOf(TriggerScore(params))]

\* The parameters the bounded calls are drawn from
SocraticParams ==
    [mode : {"exam", "practice"},
     isCorrect : BOOLEAN,
     currentPL : {0, 3999, 4000, 7000, 7001, 9000, 9001},
     prevPL : {0, 5498, 5501, 10000},
     wrongStreakOnConcept : 0..MaxStreak,
     guessProbability : {0, 6000, 6001},
     confidenceScore : {0, 2999, 3000},
     timeRemainingMs : {Undefined, 59999, 60000}]

\* socraticDecision = shouldTriggerSocratic(socraticParams)
ShouldTriggerSocratic ==
    /\ kpc = "call"
    /\ socraticDecision' = shouldTriggerSocratic(socraticParams)
    /\ kpc' = "done"
    /\ UNCHANGED <<socraticParams, notSocratic>>

SocraticNext == ShouldTriggerSocratic

----------------------------------------------------------------------------
(* Behavioural analyzer, detectCheating: lms-store.ts 194-209.              *)
(* Scores are exact rationals <<numerator, denominator>>.                   *)

\* x + y and x * y on rationals
RAdd(x, y) == Reduced(x[1] * y[2] + y[1] * x[2], x[2] * y[2])
RMul(x, y) == Reduced(x[1] * y[1], x[2] * y[2])

\* Math.min(1, x)
MinOne(x) == IF RLess(<<1, 1>>, x) THEN <<1, 1>> ELSE x

\* tabSwitches / (totalQuestions * 2), not capped
tabScoreUncapped(signals) == Reduced(signals.tabSwitches, signals.totalQuestions * 2)

\* const tabScore = Math.min(1, tabSwitches / (totalQuestions * 2))
tabScore(signals) == MinOne(Reduced(signals.tabSwitches, signals.totalQuestions * 2))

\* const pasteScore = Math.min(1, pasteEvents / totalQuestions)
pasteScore(signals) == MinOne(Reduced(signals.pasteEvents, signals.totalQuestions))

\* fastHardAnswers / Math.max(1, totalQuestions * 0.3), not capped
fastHardScoreUncapped(signals) ==
    Reduced(signals.fastHardAnswers * 10, Max(10, signals.totalQuestions * 3))

\* const fastHardScore = Math.min(1, fastHardAnswers / Math.max(1, totalQuestions * 0.3))
fastHardScore(signals) ==
    MinOne(Reduced(signals.fastHardAnswers * 10, Max(10, signals.totalQuestions * 3)))

\* const crs = 0.3 * tabScore + 0.3 * pasteScore + 0.4 * fastHardScore
Crs(signals) ==
    RAdd(RAdd(RMul(<<3, 10>>, tabScore(signals)), RMul(<<3, 10>>, pasteScore(signals))),
         RMul(<<4, 10>>, fastHardScore(signals)))

CHEAT_THRESHOLD == <<5, 10>>

detectCheating(signals) ==
    IF signals.totalQuestions = 0
    THEN [score |-> <<0, 1>>, flagged |-> FALSE]
    ELSE [score |-> MinOne(Crs(signals)),
          flagged |-> RLess(CHEAT_THRESHOLD, Crs(signals))]

\* The signals the bounded calls are drawn from: each count runs past the
\* point where its rate is capped
CheatSignals ==
    [tabSwitches : 0..(2 * MaxQuestions + 1),
     pasteEvents : 0..(MaxQuestions + 1),
     fastHardAnswers : 0..MaxQuestions,
     totalQuestions : 0..MaxQuestions]

\* cheatRisk = detectCheating(cheatSignals)
DetectCheating ==
    /\ cpc = "call"
    /\ cheatRisk' = detectCheating(cheatSignals)
    /\ cpc' = "done"
    /\ UNCHANGED <<cheatSignals, notCheat>>

CheatNext == DetectCheating

----------------------------------------------------------------------------
(* Behavioural analyzer, detectGuessing: lms-store.ts 94-186.               *)
(* A SessionResponse is [selectedOption, isCorrect, responseTimeMs,         *)
(* difficulty, theta, irtB, irtC]; an optional field is <<>> when undefined *)
(* and <<value>> otherwise.  theta and irtB are in fifths, irtC and the     *)
(* guessing probability in units of 0.0001.                                 *)

EXPECTED_TIME_MS == [easy |-> 15000, medium |-> 25000, hard |-> 40000]
SIGMA_TIME_MS == 10000

\* The keys an object literal inherits from Object.prototype:
\* EXPECTED_TIME_MS[key] is then a function or an object, `??` keeps it, and
\* every number computed from it is NaN
ObjectPrototypeKeys == {"constructor", "toString", "valueOf", "hasOwnProperty", "__proto__"}

\* EXPECTED_TIME_MS[difficulty] ?? 40_000
ExpectedTimeDefaultHard(difficulty) ==
    IF difficulty \in DOMAIN EXPECTED_TIME_MS THEN EXPECTED_TIME_MS[difficulty] ELSE 40000

\* EXPECTED_TIME_MS[difficulty] ?? 25_000, for the keys that are numbers or
\* undefined
ExpectedTime(difficulty) ==
    IF difficulty \in DOMAIN EXPECTED_TIME_MS THEN EXPECTED_TIME_MS[difficulty] ELSE 25000

\* zScore >= 2.5 in the place of zScore > 2.5
speedAnomalyFlagAtLeast(responseTimeMs, difficulty) ==
    LET expected == ExpectedTime(difficulty)
        zScore == <<expected - responseTimeMs, SIGMA_TIME_MS>>
    IN  difficulty \notin ObjectPrototypeKeys /\ RLeq(<<5, 2>>, zScore)

\* Rule 1: zScore = (expected - responseTimeMs) / SIGMA_TIME_MS > 2.5, false
\* when zScore is NaN
speedAnomalyFlag(responseTimeMs, difficulty) ==
    LET expected == ExpectedTime(difficulty)
        zScore == <<expected - responseTimeMs, SIGMA_TIME_MS>>
    IN  difficulty \notin ObjectPrototypeKeys /\ RLess(<<5, 2>>, zScore)

\* responses.slice(-n)
LastOf(responses, n) == SubSeq(responses, Max(1, Len(responses) - n + 1), Len(responses))

\* 10000 * Math.log2(n), n = 1..10, to the nearest integer
Log2Table == <<0, 10000, 15850, 20000, 23219, 25850, 28074, 30000, 31699, 33219>>

\* counts[option] over the window
OptionCount(window, option) ==
    Cardinality({k \in DOMAIN window : window[k].selectedOption = option})

\* 10000 * total * entropy: the sum of c * (log2(total) - log2(c)) over the
\* options with c > 0
EntropyTimesTotal(window) ==
    SumSeq([o \in 1..4 |->
        LET c == OptionCount(window, o - 1)
        IN  IF c = 0 THEN 0 ELSE c * (Log2Table[Len(window)] - Log2Table[c])])

\* entropy < 0.5 over the last 10 responses, false below 5 of them
LowEntropy(responses) ==
    LET window == LastOf(responses, 10)
    IN  IF Len(window) < 5 THEN FALSE
        ELSE EntropyTimesTotal(window) < 5000 * Len(window)

\* the entropy rule alone
selectionPatternFlagEntropyOnly(responses) ==
    IF Len(responses) < 4 THEN FALSE
    ELSE LowEntropy(responses)

\* Rule 2: the last four options are one option, or the entropy is low
selectionPatternFlag(responses) ==
    IF Len(responses) < 4 THEN FALSE
    ELSE LET recent == {LastOf(responses, 4)[k].selectedOption : k \in 1..4}
         IN  IF Cardinality(recent) = 1 THEN TRUE
             ELSE LowEntropy(responses)

MISMATCH_THRESHOLD == <<3000, -4>>

\* Rule 3: correct although c + (1 - c) / (1 + exp(-(theta - irtB))) < 0.3
abilityMismatchFlag(response) ==
    IF ~response.isCorrect \/ response.theta = <<>> \/ response.irtB = <<>>
    THEN FALSE
    ELSE LET c == IF response.irtC = <<>> THEN 2500 ELSE response.irtC[1]
             exp == Exp5(-(response.theta[1] - response.irtB[1]))
             pCorrect == DAdd(Norm(c, -4), DDiv(Norm(EpsInv - c, -4), DAdd(DOne, exp)))
         IN  DLess(pCorrect, MISMATCH_THRESHOLD)

\* sigmoid(rawScore - 1.5) for the eight sums of 1.2, 1.0 and 0.8, by ten
\* times the rawScore
SigmoidOfRaw(rawTenths) ==
    CASE rawTenths = 0 -> 1824
      [] rawTenths = 8 -> 3318
      [] rawTenths = 10 -> 3775
      [] rawTenths = 12 -> 4256
      [] rawTenths = 18 -> 5744
      [] rawTenths = 20 -> 6225
      [] rawTenths = 22 -> 6682
      [] rawTenths = 30 -> 8176

detectGuessing(response, allResponses) ==
    LET speed == speedAnomalyFlag(response.responseTimeMs, response.difficulty)
        pattern == selectionPatternFlag(allResponses)
        mismatch == abilityMismatchFlag(response)
        rawScore == (IF speed THEN 12 ELSE 0) + (IF pattern THEN 10 ELSE 0)
                    + (IF mismatch THEN 8 ELSE 0)
        probability == SigmoidOfRaw(rawScore)
    IN  [probability |-> Min(EpsInv, Max(0, probability)),
         speedFlag |-> speed,
         patternFlag |-> pattern,
         mismatchFlag |-> mismatch,
         reasons |-> (IF speed THEN <<"speed">> ELSE <<>>)
                     \o (IF pattern THEN <<"pattern">> ELSE <<>>)
                     \o (IF mismatch THEN <<"mismatch">> ELSE <<>>)]

\* The responses analysed: times on both sides of the speed threshold of a
\* hard item, a difficulty outside the table, abilities and item parameters
\* given or left out
IrtFields ==
    { <<<<>>, <<10>>, <<>>>>, <<<<-10>>, <<>>, <<>>>>, <<<<-10>>, <<10>>, <<>>>>,
      <<<<0>>, <<10>>, <<>>>>, <<<<0>>, <<10>>, <<0>>>>, <<<<0>>, <<0>>, <<0>>>> }
GuessResponses ==
    {[selectedOption |-> 0, isCorrect |-> ok, responseTimeMs |-> rt, difficulty |-> d,
      theta |-> f[1], irtB |-> f[2], irtC |-> f[3]] :
        ok \in BOOLEAN, rt \in {0, 2000, 14999, 15000},
        d \in {"easy", "medium", "hard", "expert", "constructor"}, f \in IrtFields}

\* A history entry: only its option and its correctness vary
HistoryEntry(option, ok) ==
    [selectedOption |-> option, isCorrect |-> ok, responseTimeMs |-> 20000,
     difficulty |-> "medium", theta |-> <<>>, irtB |-> <<>>, irtC |-> <<>>]

\* The histories: n answers on one option, up to two of them on the next
\* option; all correct, all wrong, or correct and wrong in turn
OddPositions(n) == {{}} \cup {{i} : i \in 1..n} \cup {{i, j} : i, j \in 1..n}
Correctness == {"right", "wrong", "mixed"}
History(n, base, odd, how) ==
    [k \in 1..n |->
        HistoryEntry(IF k \in odd THEN (base + 1) % 4 ELSE base,
                     CASE how = "right" -> TRUE
                       [] how = "wrong" -> FALSE
                       [] how = "mixed" -> k % 2 = 0)]
GuessHistories ==
    {History(n, base, odd, how) :
        n \in 0..MaxHistory, base \in {0, 3}, odd \in OddPositions(MaxHistory),
        how \in Correctness}

\* guessingResult = detectGuessing(guessResponse, guessHistory)
DetectGuessing ==
    /\ dpc = "call"
    /\ guessingResult' = detectGuessing(guessResponse, guessHistory)
    /\ dpc' = "done"
    /\ UNCHANGED <<guessResponse, guessHistory, notGuess>>

GuessNext == DetectGuessing

----------------------------------------------------------------------------
(* IRT engine, thetaToScore: lms-store.ts 417-419.  theta is in thousandths *)
(* here.  Where (theta + 4) / 8 * 100 is a half exactly, the rounding of    *)
(* the binary64 division decides the direction of Math.round; the bounded   *)
(* abilities stay off those points.                                         *)

\* the score on a scale of 0..200
thetaToScoreOverFour(t) == (t + 4020) \div 40

\* Math.round(((theta + 4) / 8) * 100): Math.round takes a half upwards
thetaToScore(t) == (t + 4040) \div 80

\* The abilities scored: -4, -3.936, ... in steps of 0.064
ScoreThetas == {THETA_MIN + 64 * k : k \in 0..MaxThetaSteps}

\* scoreCalls holds <<theta, thetaToScore(theta)>> of the last two calls
ThetaToScore ==
    /\ \E t \in ScoreThetas :
          scoreCalls' = LastOf(Append(scoreCalls, <<t, thetaToScore(t)>>), 2)
    /\ UNCHANGED notScore

ScoreNext == ThetaToScore

----------------------------------------------------------------------------
(* The wall clock: Date.now() is read by updateStability,                   *)
(* createMasteryState and buildGraph.  It only moves forward.               *)

\* Date.now() at the first call: later than every timestamp of the logs
CLOCK_START == 10 * HOURS_PER_DAY

\* A day passes
Tick ==
    /\ now < CLOCK_START + MaxTicks * HOURS_PER_DAY
    /\ now' = now + HOURS_PER_DAY
    /\ UNCHANGED notClock

----------------------------------------------------------------------------
(* Mastery engine, updateStability and createMasteryState:                  *)
(* knowledge-graph-engine.ts 353-432.  A MasteryState is [pL, stability,    *)
(* reviewCount, lastReviewMs]: pL in units of 0.0001, stability in          *)
(* thousandths of a day, lastReviewMs a reading of the clock.               *)

\* 100000 * Math.exp(0.1 * pL), by the Taylor polynomial of degree 3 (the
\* remainder is below 0.5 for pL in [0, 1])
ExpTenth(p) ==
    100000 + p + RoundDiv(p * p, 200000) + RoundDiv(((p * p) \div 1000) * p, 60000000)

\* stability * (g / 100000) for g < 11000, in two parts to stay in 32 bits
Grown(stability, g) ==
    RoundDiv((stability \div 1000) * g * 10 + RoundDiv((stability % 1000) * g, 100), 1000)

STABILITY_CAP == 365000

\* createMasteryState(), the clock showing `clock`
createMasteryState(clock) ==
    [pL |-> P_INIT * 100, stability |-> 1000, reviewCount |-> 0, lastReviewMs |-> clock]

\* the new stability, not capped
updateStabilityUncapped(state, correct, clock) ==
    IF ~correct THEN state
    ELSE LET newStability ==
                 state.stability + Grown(state.stability, ExpTenth(state.pL) - 100000)
         IN  [state EXCEPT !.stability = newStability,
                           !.reviewCount = state.reviewCount + 1,
                           !.lastReviewMs = clock]

\* updateStability(state, correct), the clock showing `clock`
updateStability(state, correct, clock) ==
    IF ~correct THEN state
    ELSE LET newStability ==
                 state.stability + Grown(state.stability, ExpTenth(state.pL) - 100000)
         IN  [state EXCEPT !.stability = Min(newStability, STABILITY_CAP),
                           !.reviewCount = state.reviewCount + 1,
                           !.lastReviewMs = clock]

\* masteryState = updateStability(masteryState, correct)
UpdateStability(correct) ==
    /\ masteryState.reviewCount < MaxReviews
    /\ stabilityPrev' = <<masteryState>>
    /\ stabilityCorrect' = correct
    /\ masteryState' = updateStability(masteryState, correct, now)
    /\ UNCHANGED notStability

ReviewCorrect == UpdateStability(TRUE)
ReviewWrong == UpdateStability(FALSE)

\* The clock moves between the calls
StabilityNext == ReviewCorrect \/ ReviewWrong \/ Tick

----------------------------------------------------------------------------
(* POST /api/analyze-behavior: pages/api/analyze-behavior.ts 36-158.        *)
(* A request is [method, body]; the body is [mode, responses,               *)
(* behaviorSignals, currentPL] with behaviorSignals and currentPL <<>> when *)
(* left out; a posted response is [questionId, selectedOption, isCorrect,   *)
(* responseTimeMs, difficulty, concept, irt] with irt <<>> or <<[a, b, c]>>.*)
(* toFixed(3) gives thousandths; the mastery is kept in units of 0.0001.    *)

\* Lines 50-58: theta is not among the fields set
SessionResponses(responses) ==
    [k \in 1..Len(responses) |->
        [selectedOption |-> responses[k].selectedOption,
         isCorrect |-> responses[k].isCorrect,
         responseTimeMs |-> responses[k].responseTimeMs,
         difficulty |-> responses[k].difficulty,
         theta |-> <<>>,
         irtB |-> IF responses[k].irt = <<>> THEN <<>> ELSE <<responses[k].irt[1].b>>,
         irtC |-> IF responses[k].irt = <<>> THEN <<>> ELSE <<responses[k].irt[1].c>>]]

\* Lines 61-63: detectGuessing(resp, sessionResponses.slice(0, i + 1))
GuessingResults(responses) ==
    [k \in 1..Len(responses) |->
        detectGuessing(SessionResponses(responses)[k],
                       SubSeq(SessionResponses(responses), 1, k))]

\* The item of a posted response; a = 1, b = 0, c = 0 when irt is left out
ItemOf(r) ==
    IF r.irt = <<>> THEN [id |-> r.questionId, a |-> 1, b |-> 0, c |-> 0]
    ELSE [id |-> r.questionId, a |-> r.irt[1].a, b |-> r.irt[1].b, c |-> r.irt[1].c]

\* every response, with or without irt
IrtResponsesUnfiltered(responses) ==
    [k \in 1..Len(responses) |-> [item |-> ItemOf(responses[k]),
                                  correct |-> responses[k].isCorrect]]

\* Lines 69-79: responses.filter(r => r.irt).map(...)
IrtResponses(responses) ==
    LET withIrt == SelectSeq(responses, LAMBDA r : r.irt # <<>>)
    IN  [k \in 1..Len(withIrt) |-> [item |-> ItemOf(withIrt[k]),
                                    correct |-> withIrt[k].isCorrect]]

\* Lines 84-89: pL after the first k responses
RECURSIVE MasteryAfter(_, _, _)
MasteryAfter(currentPL, responses, k) ==
    IF k = 0 THEN currentPL
    ELSE updateMastery(MasteryAfter(currentPL, responses, k - 1), responses[k].isCorrect)

MasteryTrajectory(currentPL, responses) ==
    [k \in 1..Len(responses) |->
        [after |-> responses[k].questionId, pL |-> MasteryAfter(currentPL, responses, k)]]

\* optionEntropy(selectedOptions), lms-store.ts 215-225, in units of 0.0001
optionEntropy(selectedOptions) ==
    IF Len(selectedOptions) = 0 THEN 20000
    ELSE RoundDiv(
           SumSeq([o \in 1..4 |->
               LET c == Cardinality({k \in DOMAIN selectedOptions :
                                        selectedOptions[k] = o - 1})
               IN  IF c = 0 THEN 0
                   ELSE c * (Log2Table[Len(selectedOptions)] - Log2Table[c])]),
           Len(selectedOptions))

\* Lines 96-98
AvgGuessProbability(guessingResults) ==
    IF Len(guessingResults) > 0
    THEN RoundDiv(SumSeq([k \in 1..Len(guessingResults) |-> guessingResults[k].probability]),
                  Len(guessingResults))
    ELSE 0

\* Lines 101-104: the wrong answers at the end of the session
WrongStreak(responses) ==
    LET correctAt == {k \in 1..Len(responses) : responses[k].isCorrect}
    IN  IF correctAt = {} THEN Len(responses)
        ELSE Len(responses) - (CHOOSE k \in correctAt : \A j \in correctAt : j <= k)

\* Lines 140-144
MasteryLabel(finalPL) ==
    IF finalPL >= 9500 THEN "Mastered"
    ELSE IF finalPL >= 7500 THEN "Proficient"
    ELSE IF finalPL >= 5000 THEN "Learning"
    ELSE IF finalPL >= 3000 THEN "Developing"
    ELSE "New"

\* Lines 107-120: null is <<>>
SocraticFor(mode, currentPL, responses) ==
    LET n == Len(responses)
        masteryTrajectory == MasteryTrajectory(currentPL, responses)
    IN  IF n = 0 THEN <<>>
        ELSE <<shouldTriggerSocratic(
                 [mode |-> mode,
                  isCorrect |-> responses[n].isCorrect,
                  currentPL |-> MasteryAfter(currentPL, responses, n),
                  prevPL |-> IF n >= 2 THEN masteryTrajectory[n - 1].pL ELSE currentPL,
                  wrongStreakOnConcept |-> WrongStreak(responses),
                  guessProbability |-> AvgGuessProbability(GuessingResults(responses)),
                  confidenceScore |-> 5000,
                  timeRemainingMs |-> Undefined])>>

\* The body of the 200 reply, for the list `irt` handed to updateTheta
AnalysisOf(mode, responses, signals, currentPL, irt) ==
    LET guessingResults == GuessingResults(responses)
        risk == detectCheating(signals)
        estimate == updateTheta(irt, 0)
        finalPL == MasteryAfter(currentPL, responses, Len(responses))
    IN  [guessingPerResponse |->
            [k \in 1..Len(responses) |->
                [questionId |-> responses[k].questionId,
                 probability |-> RoundDiv(guessingResults[k].probability, 10),
                 flags |-> [speed |-> guessingResults[k].speedFlag,
                            pattern |-> guessingResults[k].patternFlag,
                            mismatch |-> guessingResults[k].mismatchFlag],
                 reasons |-> guessingResults[k].reasons]],
         sessionSummary |->
            [theta |-> estimate,
             abilityScore |-> thetaToScore(estimate),
             finalMasteryPL |-> finalPL,
             masteryLabel |-> MasteryLabel(finalPL),
             avgGuessProbability |-> RoundDiv(AvgGuessProbability(guessingResults), 10),
             optionEntropy |->
                 RoundDiv(optionEntropy([k \in 1..Len(responses) |->
                                            responses[k].selectedOption]), 10),
             masteryTrajectory |-> MasteryTrajectory(currentPL, responses)],
         cheatRisk |-> [score |-> RoundDiv(1000 * risk.score[1], risk.score[2]),
                        flagged |-> risk.flagged],
         socratic |-> SocraticFor(mode, currentPL, responses)]

\* The posted responses: correct or wrong, on a hard item answered in 2 s,
\* without irt, with a hard item (b = 2, c = 0) or a medium one (b = 0,
\* c = 0.25), on one of two concepts; the question ids follow the positions
PostedIrt == {<<>>, <<[a |-> 1, b |-> 10, c |-> 0]>>, <<[a |-> 1, b |-> 0, c |-> 2500]>>}
QuestionId(k) == <<"r1", "r2", "r3", "r4">>[k]
PostedConcepts == {"limits", "derivatives"}
PostedLists ==
    UNION {{[k \in 1..n |-> [questionId |-> QuestionId(k), selectedOption |-> 0,
                             isCorrect |-> ok[k], responseTimeMs |-> 2000,
                             difficulty |-> "hard", concept |-> on[k],
                             irt |-> irt[k]]] :
              ok \in [1..n -> BOOLEAN], irt \in [1..n -> PostedIrt],
              on \in [1..n -> PostedConcepts]} : n \in 0..MaxPosted}
PostedSignals ==
    {<<>>, <<[tabSwitches |-> 0, pasteEvents |-> 0, fastHardAnswers |-> 0,
              totalQuestions |-> 0]>>}
Requests ==
    [method : {"POST", "GET"},
     body : [mode : {"practice", "exam"}, responses : PostedLists,
             behaviorSignals : PostedSignals, currentPL : {<<>>, <<5000>>}]]

\* handler(req, res): the reply, and the list handed to updateTheta
AnalyzeBehavior ==
    /\ hpc = "request"
    /\ hpc' = "replied"
    /\ IF request.method # "POST"
       THEN /\ reply' = [status |-> 405, body |-> <<>>]
            /\ handlerIrt' = <<>>
            /\ handlerStreak' = <<>>
       ELSE IF request.body.behaviorSignals = <<>>
       THEN /\ reply' = [status |-> 400, body |-> <<>>]
            /\ handlerIrt' = <<>>
            /\ handlerStreak' = <<>>
       ELSE /\ handlerIrt' = IrtResponses(request.body.responses)
            /\ handlerStreak' = IF Len(request.body.responses) = 0 THEN <<>>
                                ELSE <<WrongStreak(request.body.responses)>>
            /\ reply' = [status |-> 200,
                         body |-> <<AnalysisOf(
                             request.body.mode, request.body.responses,
                             request.body.behaviorSignals[1],
                             IF request.body.currentPL = <<>> THEN P_INIT * 100
                             ELSE request.body.currentPL[1],
                             handlerIrt')>>]
    /\ UNCHANGED <<request, notHandler>>

HandlerNext == AnalyzeBehavior

----------------------------------------------------------------------------
(* prerequisiteStrength(conceptA, conceptB) and the same call with the      *)
(* arguments exchanged: knowledge-graph-engine.ts 74-78                     *)

\* The concepts of PREREQUISITE_STRENGTH, keys and successors
TableConcepts ==
    {PREREQUISITE_STRENGTH[k][1] : k \in DOMAIN PREREQUISITE_STRENGTH}
        \cup {PREREQUISITE_STRENGTH[k][2] : k \in DOMAIN PREREQUISITE_STRENGTH}

\* The arguments of the bounded calls: the concepts of the table, one of them
\* capitalised, and a concept the table does not know
PrereqConcepts == TableConcepts \cup {"Limits", "topology"}

\* prereqForward = prerequisiteStrength(a, b)
LookupForward ==
    /\ ppc = "call"
    /\ prereqForward' = prerequisiteStrength(prereqArgs[1], prereqArgs[2])
    /\ ppc' = "exchanged"
    /\ UNCHANGED <<prereqArgs, prereqBackward, notPrereq>>

\* prereqBackward = prerequisiteStrength(b, a)
LookupBackward ==
    /\ ppc = "exchanged"
    /\ prereqBackward' = prerequisiteStrength(prereqArgs[2], prereqArgs[1])
    /\ ppc' = "done"
    /\ UNCHANGED <<prereqArgs, prereqForward, notPrereq>>

PrereqNext == LookupForward \/ LookupBackward

----------------------------------------------------------------------------
(* louvainCluster, step by step *)

\* LouvainStart without `if (totalWeight === 0) return communities`
LouvainStartNoReturn ==
    /\ lpc = "start"
    /\ communities' = InitialCommunities(nodes)
    /\ lpc' = "loop"
    /\ improved' = TRUE
    /\ maxIterations' = MAX_ITERATIONS
    /\ UNCHANGED <<nodes, edges, nodeIdx, passMoves, divided, notLouvain>>

\* lines 155-160 and, when the total weight is not 0, 162-180
LouvainStart ==
    /\ lpc = "start"
    /\ communities' = InitialCommunities(nodes)
    /\ IF TotalWeight(edges) = 0
       THEN /\ lpc' = "done"
            /\ UNCHANGED <<improved, maxIterations>>
       ELSE /\ lpc' = "loop"
            /\ improved' = TRUE
            /\ maxIterations' = MAX_ITERATIONS
    /\ UNCHANGED <<nodes, edges, nodeIdx, passMoves, divided, notLouvain>>

\* LouvainEnterPass without `improved = false`
LouvainEnterPassNoReset ==
    /\ lpc = "loop"
    /\ improved /\ maxIterations > 0
    /\ maxIterations' = maxIterations - 1
    /\ nodeIdx' = 1
    /\ passMoves' = Append(passMoves, 0)
    /\ lpc' = IF Len(nodes) = 0 THEN "loop" ELSE "visit"
    /\ UNCHANGED <<nodes, edges, communities, improved, divided, notLouvain>>

\* line 182, condition true: while (improved && maxIterations-- > 0)
LouvainEnterPass ==
    /\ lpc = "loop"
    /\ improved /\ maxIterations > 0
    /\ maxIterations' = maxIterations - 1
    /\ improved' = FALSE
    /\ nodeIdx' = 1
    /\ passMoves' = Append(passMoves, 0)
    /\ lpc' = IF Len(nodes) = 0 THEN "loop" ELSE "visit"
    /\ UNCHANGED <<nodes, edges, communities, divided, notLouvain>>

\* line 182, condition false; the decrement happens only if improved held
LouvainExitLoop ==
    /\ lpc = "loop"
    /\ ~(improved /\ maxIterations > 0)
    /\ maxIterations' = IF improved THEN maxIterations - 1 ELSE maxIterations
    /\ lpc' = "renumber"
    /\ UNCHANGED <<nodes, edges, communities, improved, nodeIdx, passMoves, divided, notLouvain>>

\* lines 184-216, one node
LouvainVisit ==
    /\ lpc = "visit"
    /\ LET node == nodes[nodeIdx]
           best == BestCom(nodes, edges, communities, node)
           moved == best # communities[node]
       IN  /\ communities' = [communities EXCEPT ![node] = best]
           /\ improved' = (improved \/ moved)
           /\ passMoves' = [passMoves EXCEPT ![Len(passMoves)] =
                               @ + (IF moved THEN 1 ELSE 0)]
           /\ divided' = (divided \/ Adjacency(nodes, edges)[node] # <<>>)
    /\ nodeIdx' = nodeIdx + 1
    /\ lpc' = IF nodeIdx = Len(nodes) THEN "loop" ELSE "visit"
    /\ UNCHANGED <<nodes, edges, maxIterations, notLouvain>>

\* lines 219-227
LouvainRenumber ==
    /\ lpc = "renumber"
    /\ communities' = Renumbered(nodes, communities)
    /\ lpc' = "done"
    /\ UNCHANGED <<nodes, edges, improved, maxIterations, nodeIdx, passMoves, divided, notLouvain>>

LouvainNext ==
    \/ LouvainStart
    \/ LouvainEnterPass
    \/ LouvainExitLoop
    \/ LouvainVisit
    \/ LouvainRenumber

\* The calls louvainCluster(nodes, edges) of the bounded input space: distinct
\* node ids, edges between them (self-loops included) with non-negative
\* weights.  source and target enter the adjacency symmetrically, so each
\* unordered pair is listed in one orientation.
EdgeChoices(k) ==
    UNION {{[source |-> NodeIds[i], target |-> NodeIds[j], weight |-> w] :
               j \in i..k, w \in 0..MaxWeight} : i \in 1..k}

EdgeLists(k) ==
    UNION {[1..n -> EdgeChoices(k)] : n \in 0..MaxEdges}

\* The unordered pairs of the first k node ids, self-pairs included, in
\* lexicographic order
RECURSIVE AllPairs(_, _, _)
AllPairs(k, i, j) ==
    IF i > k THEN <<>>
    ELSE IF j > k THEN AllPairs(k, i + 1, i + 1)
    ELSE <<<<i, j>>>> \o AllPairs(k, i, j + 1)

\* The calls on a graph with at most one edge per pair, of weight
\* 1..MaxWeight, the edges listed in the order of the pairs
PairGraphs(k) ==
    LET pairs == AllPairs(k, 1, 1)
    IN  {SelectSeq([n \in 1..Len(pairs) |->
                       [source |-> NodeIds[pairs[n][1]], target |-> NodeIds[pairs[n][2]],
                        weight |-> w[n]]],
                   LAMBDA e : e.weight > 0) :
            w \in [1..Len(pairs) -> 0..MaxWeight]}

----------------------------------------------------------------------------
(* buildGraph, in three steps around its call of louvainCluster *)

\* The concept names the bounded inputs are drawn from
ConceptNames == {"limits", "derivatives", "topology"}

\* k days on which "Topology" alone is practised, one log a day
SoloLogs(k) ==
    [d \in 1..k |-> [concept |-> "Topology", isCorrect |-> TRUE,
                     timestamp |-> (d - 1) * HOURS_PER_DAY + 8,
                     masteryPL |-> 5000, responseTimeMs |-> 30000]]

\* The logs of the two days that follow the k solo days
TailLogs(k) ==
    [concept : ConceptNames, isCorrect : BOOLEAN,
     timestamp : {k * HOURS_PER_DAY + 8, (k + 1) * HOURS_PER_DAY + 8},
     masteryPL : {5000}, responseTimeMs : {30000}]

\* Lines 262-307: the concepts, the edges, and the call of louvainCluster
BuildEdges ==
    /\ gpc = "call"
    /\ conceptIds' = ConceptIds(sessionLogs, 1, <<>>)
    /\ graphEdges' = EdgeLoop(conceptIds', sessionLogs, 1, 2, <<>>, {})
    /\ nodes' = conceptIds'
    /\ edges' = ClusterEdges(graphEdges')
    /\ communities' = <<>>
    /\ improved' = FALSE
    /\ maxIterations' = 0
    /\ nodeIdx' = 0
    /\ passMoves' = <<>>
    /\ divided' = FALSE
    /\ lpc' = "start"
    /\ gpc' = "cluster"
    /\ UNCHANGED <<sessionLogs, graphNodes, notGraph>>

\* getNodeState(masteryPL, cognitiveLoad, forgettingRisk): lines 225-249.
\* masteryPL and cognitiveLoad are in units of 0.0001, as is the size.
getNodeState(mastery, cognitiveLoad, forgettingRisk) ==
    LET effective == DMul(Norm(mastery, -4), DSub(DOne, DMul(forgettingRisk, <<4000, -4>>)))
    IN  [color |-> IF ~DLess(effective, <<9000, -4>>) THEN "#00ff88"
                   ELSE IF ~DLess(effective, <<7000, -4>>) THEN "#ffff00"
                   ELSE IF cognitiveLoad > 8000 THEN "#ff4400"
                   ELSE IF DLess(<<5000, -4>>, forgettingRisk) THEN "#ff8800"
                   ELSE IF ~DLess(effective, <<5000, -4>>) THEN "#44aaff"
                   ELSE "#cc44ff",
         size |-> 30000 + mastery * 8 + cognitiveLoad * 2]

\* The node of a concept, lines 317-337, Date.now() showing `clock`: the
\* exponent -daysSince / max(1, n) is taken to the nearest 0.2; name and
\* category, copied from the id and from the latest log, are left out
GraphNode(id, logs, es, comms, clock) ==
    LET conceptLogs == SelectSeq(logs, LAMBDA l : ToLowerCase(l.concept) = id)
        n == Len(conceptLogs)
        latestLog == conceptLogs[n]
        avg == RoundDiv(SumSeq([k \in 1..n |-> conceptLogs[k].masteryPL]), n)
        sinceFifths == RoundDiv(5 * (clock - latestLog.timestamp), HOURS_PER_DAY * Max(1, n))
        forgetting == DSub(DOne, Exp5(-sinceFifths))
        cogLoad == Min(EpsInv,
                       RoundDiv(SumSeq([k \in 1..n |-> conceptLogs[k].responseTimeMs]), n * 6))
        state == getNodeState(avg, cogLoad, forgetting)
    IN  [id |-> id,
         masteryPL |-> avg,
         effectiveMastery |->
             DMul(Norm(avg, -4), DSub(DOne, DMul(forgetting, <<4000, -4>>))),
         community |-> IF id \in DOMAIN comms THEN comms[id] ELSE 0,
         degree |-> DegreeOf(id, es),
         color |-> state.color,
         size |-> state.size]

\* Lines 309-339: louvainCluster has returned; degrees and nodes
BuildNodes ==
    /\ gpc = "cluster"
    /\ lpc = "done"
    /\ graphNodes' = [k \in 1..Len(conceptIds) |->
                         GraphNode(conceptIds[k], sessionLogs, graphEdges, communities, now)]
    /\ gpc' = "done"
    /\ UNCHANGED <<sessionLogs, conceptIds, graphEdges, louvainVars, notGraph>>

GraphNext == BuildEdges \/ LouvainNext \/ BuildNodes

----------------------------------------------------------------------------
(* A caller invokes one operation twice with the same arguments; the clock  *)
(* may move between the two invocations.                                    *)

\* Date.now() at the first invocation: the day after the last log
REPEAT_START == 2 * HOURS_PER_DAY

RepeatOps ==
    {"buildGraph", "louvainCluster", "updateMastery", "updateStability",
     "detectGuessing", "detectCheating", "shouldTriggerSocratic"}
StepwiseOps == {"buildGraph", "louvainCluster"}

\* The arguments the two invocations share, as a tuple
RepeatArgs(op) ==
    CASE op = "buildGraph" ->
           {<<tail>> : tail \in UNION {[1..n -> TailLogs(0)] : n \in 0..MaxRepeatLogs}}
      [] op = "louvainCluster" ->
           {<<SubSeq(NodeIds, 1, MaxNodes), es>> : es \in EdgeLists(MaxNodes)}
      [] op = "updateMastery" ->
           {<<p, correct>> : p \in {0, P_INIT * 100, EpsInv}, correct \in BOOLEAN}
      [] op = "updateStability" ->
           {<<createMasteryState(REPEAT_START), correct>> : correct \in BOOLEAN}
      [] op = "detectGuessing" ->
           {<<response, History(n, 0, {}, "mixed")>> :
               response \in {r \in GuessResponses : r.responseTimeMs = 2000},
               n \in {0, 4}}
      [] op = "detectCheating" -> {<<signals>> : signals \in CheatSignals}
      [] op = "shouldTriggerSocratic" ->
           {<<params>> : params \in {q \in SocraticParams :
                                       /\ q.timeRemainingMs = Undefined
                                       /\ q.guessProbability = 0
                                       /\ q.confidenceScore = 0}}

\* The value an operation without steps returns, Date.now() showing `clock`
Apply(op, args, clock) ==
    CASE op = "updateMastery" -> updateMastery(args[1], args[2])
      [] op = "updateStability" -> updateStability(args[1], args[2], clock)
      [] op = "detectGuessing" -> detectGuessing(args[1], args[2])
      [] op = "detectCheating" -> detectCheating(args[1])
      [] op = "shouldTriggerSocratic" -> shouldTriggerSocratic(args[1])

\* The first invocation returns
RepeatFirst ==
    /\ rpc = "first"
    /\ repeatOp \notin StepwiseOps
    /\ repeatFirst' = <<Apply(repeatOp, repeatArgs, now)>>
    /\ rpc' = "second"
    /\ UNCHANGED <<repeatOp, repeatArgs, repeatSecond, notRepeat>>

\* The second invocation returns
RepeatSecond ==
    /\ rpc = "second"
    /\ repeatOp \notin StepwiseOps
    /\ repeatSecond' = <<Apply(repeatOp, repeatArgs, now)>>
    /\ rpc' = "done"
    /\ UNCHANGED <<repeatOp, repeatArgs, repeatFirst, notRepeat>>

\* buildGraph(logs) returns {nodes, edges}; after the first return the
\* caller invokes it again on the same logs
RepeatGraphReturn ==
    /\ repeatOp = "buildGraph"
    /\ gpc = "done"
    /\ \/ /\ rpc = "first"
          /\ repeatFirst' = <<[nodes |-> graphNodes, edges |-> graphEdges]>>
          /\ rpc' = "second"
          /\ gpc' = "call"
          /\ UNCHANGED repeatSecond
       \/ /\ rpc = "second"
          /\ repeatSecond' = <<[nodes |-> graphNodes, edges |-> graphEdges]>>
          /\ rpc' = "done"
          /\ UNCHANGED <<repeatFirst, gpc>>
    /\ UNCHANGED <<repeatOp, repeatArgs, sessionLogs, conceptIds, graphEdges, graphNodes,
                   louvainVars, notRepeatOrGraph>>

\* louvainCluster(nodes, edges) returns the communities; after the first
\* return the caller invokes it again on the same nodes and edges
RepeatLouvainReturn ==
    /\ repeatOp = "louvainCluster"
    /\ lpc = "done"
    /\ \/ /\ rpc = "first"
          /\ repeatFirst' = <<communities>>
          /\ rpc' = "second"
          /\ communities' = <<>>
          /\ improved' = FALSE
          /\ maxIterations' = 0
          /\ nodeIdx' = 0
          /\ passMoves' = <<>>
          /\ divided' = FALSE
          /\ lpc' = "start"
          /\ UNCHANGED repeatSecond
       \/ /\ rpc = "second"
          /\ repeatSecond' = <<communities>>
          /\ rpc' = "done"
          /\ UNCHANGED <<repeatFirst, communities, improved, maxIterations, nodeIdx,
                         passMoves, divided, lpc>>
    /\ UNCHANGED <<repeatOp, repeatArgs, nodes, edges, graphVars, notRepeatOrGraph>>

\* Time passes between the two invocations
RepeatTick ==
    /\ rpc = "second"
    /\ repeatOp = "buildGraph" => gpc = "call"
    /\ repeatOp = "louvainCluster" => lpc = "start"
    /\ now < REPEAT_START + MaxTicks * HOURS_PER_DAY
    /\ now' = now + HOURS_PER_DAY
    /\ UNCHANGED notClock

\* The steps of the operation invoked, while the caller waits for it
RepeatSteps ==
    /\ rpc \in {"first", "second"}
    /\ GraphNext

RepeatNext ==
    \/ RepeatFirst \/ RepeatSecond \/ RepeatGraphReturn \/ RepeatLouvainReturn
    \/ RepeatTick \/ RepeatSteps

----------------------------------------------------------------------------
(* Specifications: one per engine; the engines share no state *)

PrereqIdle ==
    /\ prereqArgs = <<>>
    /\ prereqForward = <<>>
    /\ prereqBackward = <<>>
    /\ ppc = "idle"

HandlerIdle ==
    /\ request = <<>>
    /\ reply = <<>>
    /\ handlerIrt = <<>>
    /\ handlerStreak = <<>>
    /\ hpc = "idle"

RepeatIdle ==
    /\ repeatOp = "none"
    /\ repeatArgs = <<>>
    /\ repeatFirst = <<>>
    /\ repeatSecond = <<>>
    /\ rpc = "idle"

StabilityIdle ==
    /\ masteryState = <<>>
    /\ stabilityPrev = <<>>
    /\ stabilityCorrect = FALSE

ClockIdle ==
    /\ now = CLOCK_START

ScoreIdle ==
    /\ scoreCalls = <<>>

GuessIdle ==
    /\ guessResponse = <<>>
    /\ guessHistory = <<>>
    /\ guessingResult = <<>>
    /\ dpc = "idle"

CheatIdle ==
    /\ cheatSignals = <<>>
    /\ cheatRisk = <<>>
    /\ cpc = "idle"

SocraticIdle ==
    /\ socraticParams = <<>>
    /\ socraticDecision = <<>>
    /\ kpc = "idle"

GraphIdle ==
    /\ sessionLogs = <<>>
    /\ conceptIds = <<>>
    /\ graphEdges = <<>>
    /\ graphNodes = <<>>
    /\ gpc = "idle"

LouvainIdle ==
    /\ nodes = <<>>
    /\ edges = <<>>
    /\ communities = <<>>
    /\ improved = FALSE
    /\ maxIterations = 0
    /\ nodeIdx = 0
    /\ passMoves = <<>>
    /\ divided = FALSE
    /\ lpc = "idle"

MasteryIdle ==
    /\ pL = 0
    /\ prevPL = 0
    /\ lastCorrect = FALSE
    /\ called = FALSE
    /\ correctRun = 0

ThetaIdle ==
    /\ irtResponses = <<>>
    /\ thetaPrior = 0
    /\ theta = 0
    /\ tpc = "idle"

SelectIdle ==
    /\ ability = 0
    /\ bank = <<>>
    /\ used = {}
    /\ nextItem = <<>>
    /\ spc = "idle"

\* A call louvainCluster(nodes, edges)
LouvainInit ==
    /\ \E k \in 0..MaxNodes :
          /\ nodes = SubSeq(NodeIds, 1, k)
          /\ edges \in EdgeLists(k)
    /\ communities = <<>>
    /\ improved = FALSE
    /\ maxIterations = 0
    /\ nodeIdx = 0
    /\ passMoves = <<>>
    /\ divided = FALSE
    /\ lpc = "start"
    /\ MasteryIdle /\ ThetaIdle /\ SelectIdle /\ GraphIdle /\ SocraticIdle /\ CheatIdle /\ GuessIdle /\ ScoreIdle /\ ClockIdle /\ StabilityIdle /\ RepeatIdle /\ HandlerIdle /\ PrereqIdle

SpecLouvain == LouvainInit /\ [][LouvainNext]_vars

\* A call louvainCluster(nodes, edges) on a graph given pair by pair
LouvainPairsInit ==
    /\ \E k \in 0..MaxNodes :
          /\ nodes = SubSeq(NodeIds, 1, k)
          /\ edges \in PairGraphs(k)
    /\ communities = <<>>
    /\ improved = FALSE
    /\ maxIterations = 0
    /\ nodeIdx = 0
    /\ passMoves = <<>>
    /\ divided = FALSE
    /\ lpc = "start"
    /\ MasteryIdle /\ ThetaIdle /\ SelectIdle /\ GraphIdle /\ SocraticIdle /\ CheatIdle /\ GuessIdle /\ ScoreIdle /\ ClockIdle /\ StabilityIdle /\ RepeatIdle /\ HandlerIdle /\ PrereqIdle

SpecLouvainPairs == LouvainPairsInit /\ [][LouvainNext]_vars

\* Any prior in [0, 1]
MasteryInit ==
    /\ pL \in 0..EpsInv
    /\ prevPL = pL
    /\ lastCorrect = FALSE
    /\ called = FALSE
    /\ correctRun = 0
    /\ LouvainIdle /\ ThetaIdle /\ SelectIdle /\ GraphIdle /\ SocraticIdle /\ CheatIdle /\ GuessIdle /\ ScoreIdle /\ ClockIdle /\ StabilityIdle /\ RepeatIdle /\ HandlerIdle /\ PrereqIdle

SpecMastery == MasteryInit /\ [][MasteryNext]_vars

\* A call updateTheta(responses, priorTheta)
ThetaInit ==
    /\ irtResponses \in ResponseLists
    /\ thetaPrior \in PriorThetas
    /\ theta = 0
    /\ tpc = "call"
    /\ LouvainIdle /\ MasteryIdle /\ SelectIdle /\ GraphIdle /\ SocraticIdle /\ CheatIdle /\ GuessIdle /\ ScoreIdle /\ ClockIdle /\ StabilityIdle /\ RepeatIdle /\ HandlerIdle /\ PrereqIdle

SpecTheta == ThetaInit /\ [][ThetaNext]_vars

\* A call selectNextItem(theta, itemBank, usedIds)
SelectInit ==
    /\ ability \in Abilities
    /\ bank \in ItemBanks
    /\ used \in SUBSET ItemIds
    /\ nextItem = <<>>
    /\ spc = "call"
    /\ LouvainIdle /\ MasteryIdle /\ ThetaIdle /\ GraphIdle /\ SocraticIdle /\ CheatIdle /\ GuessIdle /\ ScoreIdle /\ ClockIdle /\ StabilityIdle /\ RepeatIdle /\ HandlerIdle /\ PrereqIdle

SpecSelect == SelectInit /\ [][SelectNext]_vars

\* A call buildGraph(logs)
GraphInit ==
    /\ \E k \in {0, MaxSoloDays}, n \in 0..MaxLogs :
          \E tail \in [1..n -> TailLogs(k)] : sessionLogs = SoloLogs(k) \o tail
    /\ conceptIds = <<>>
    /\ graphEdges = <<>>
    /\ graphNodes = <<>>
    /\ gpc = "call"
    /\ LouvainIdle /\ MasteryIdle /\ ThetaIdle /\ SelectIdle /\ SocraticIdle /\ CheatIdle /\ GuessIdle /\ ScoreIdle /\ ClockIdle /\ StabilityIdle /\ RepeatIdle /\ HandlerIdle /\ PrereqIdle

SpecGraph == GraphInit /\ [][GraphNext]_vars

\* A call shouldTriggerSocratic(params)
SocraticInit ==
    /\ socraticParams \in SocraticParams
    /\ socraticDecision = <<>>
    /\ kpc = "call"
    /\ LouvainIdle /\ MasteryIdle /\ ThetaIdle /\ SelectIdle /\ GraphIdle /\ CheatIdle /\ GuessIdle /\ ScoreIdle /\ ClockIdle /\ StabilityIdle /\ RepeatIdle /\ HandlerIdle /\ PrereqIdle

SpecSocratic == SocraticInit /\ [][SocraticNext]_vars

\* A call detectCheating(signals)
CheatInit ==
    /\ cheatSignals \in CheatSignals
    /\ cheatRisk = <<>>
    /\ cpc = "call"
    /\ SocraticIdle /\ GraphIdle /\ LouvainIdle /\ MasteryIdle /\ ThetaIdle /\ SelectIdle /\ GuessIdle /\ ScoreIdle /\ ClockIdle /\ StabilityIdle /\ RepeatIdle /\ HandlerIdle /\ PrereqIdle

SpecCheat == CheatInit /\ [][CheatNext]_vars

\* A call detectGuessing(response, allResponses)
GuessInit ==
    /\ guessResponse \in GuessResponses
    /\ guessHistory \in GuessHistories
    /\ guessingResult = <<>>
    /\ dpc = "call"
    /\ CheatIdle /\ SocraticIdle /\ GraphIdle /\ LouvainIdle /\ MasteryIdle /\ ThetaIdle /\ SelectIdle /\ ScoreIdle /\ ClockIdle /\ StabilityIdle /\ RepeatIdle /\ HandlerIdle /\ PrereqIdle

SpecGuess == GuessInit /\ [][GuessNext]_vars

\* Calls of thetaToScore, one after the other
ScoreInit ==
    /\ scoreCalls = <<>>
    /\ GuessIdle /\ CheatIdle /\ SocraticIdle /\ GraphIdle /\ LouvainIdle /\ MasteryIdle /\ ThetaIdle /\ SelectIdle /\ ClockIdle /\ StabilityIdle /\ RepeatIdle /\ HandlerIdle /\ PrereqIdle

SpecScore == ScoreInit /\ [][ScoreNext]_vars


\* createMasteryState(), then calls of updateStability
StabilityInit ==
    /\ now = CLOCK_START
    /\ masteryState = createMasteryState(now)
    /\ stabilityPrev = <<>>
    /\ stabilityCorrect = FALSE
    /\ ScoreIdle /\ GuessIdle /\ CheatIdle /\ SocraticIdle /\ GraphIdle /\ LouvainIdle /\ MasteryIdle /\ ThetaIdle /\ SelectIdle /\ RepeatIdle /\ HandlerIdle /\ PrereqIdle

SpecStability == StabilityInit /\ [][StabilityNext]_vars

\* An operation and its arguments are chosen; the first invocation begins
RepeatInit ==
    /\ repeatOp \in RepeatOps
    /\ repeatArgs \in RepeatArgs(repeatOp)
    /\ repeatFirst = <<>>
    /\ repeatSecond = <<>>
    /\ rpc = "first"
    /\ now = REPEAT_START
    /\ IF repeatOp = "buildGraph"
       THEN /\ sessionLogs = repeatArgs[1]
            /\ conceptIds = <<>>
            /\ graphEdges = <<>>
            /\ graphNodes = <<>>
            /\ gpc = "call"
       ELSE GraphIdle
    /\ IF repeatOp = "louvainCluster"
       THEN /\ nodes = repeatArgs[1]
            /\ edges = repeatArgs[2]
            /\ communities = <<>>
            /\ improved = FALSE
            /\ maxIterations = 0
            /\ nodeIdx = 0
            /\ passMoves = <<>>
            /\ divided = FALSE
            /\ lpc = "start"
       ELSE LouvainIdle
    /\ MasteryIdle /\ ThetaIdle /\ SelectIdle /\ SocraticIdle /\ CheatIdle /\ GuessIdle /\ ScoreIdle /\ StabilityIdle /\ HandlerIdle /\ PrereqIdle

SpecRepeat == RepeatInit /\ [][RepeatNext]_vars

\* A request to /api/analyze-behavior
HandlerInit ==
    /\ request \in Requests
    /\ reply = <<>>
    /\ handlerIrt = <<>>
    /\ handlerStreak = <<>>
    /\ hpc = "request"
    /\ RepeatIdle /\ StabilityIdle /\ ClockIdle /\ ScoreIdle /\ GuessIdle /\ CheatIdle /\ SocraticIdle /\ GraphIdle /\ LouvainIdle /\ MasteryIdle /\ ThetaIdle /\ SelectIdle /\ PrereqIdle

SpecHandler == HandlerInit /\ [][HandlerNext]_vars

\* A call prerequisiteStrength(a, b), then prerequisiteStrength(b, a)
PrereqInit ==
    /\ prereqArgs \in PrereqConcepts \X PrereqConcepts
    /\ prereqForward = <<>>
    /\ prereqBackward = <<>>
    /\ ppc = "call"
    /\ HandlerIdle /\ RepeatIdle /\ StabilityIdle /\ ClockIdle /\ ScoreIdle /\ GuessIdle /\ CheatIdle /\ SocraticIdle /\ GraphIdle /\ LouvainIdle /\ MasteryIdle /\ ThetaIdle /\ SelectIdle

SpecPrereq == PrereqInit /\ [][PrereqNext]_vars

Init ==
    \/ LouvainInit \/ MasteryInit \/ ThetaInit \/ SelectInit \/ GraphInit
    \/ SocraticInit \/ CheatInit \/ GuessInit \/ ScoreInit \/ StabilityInit \/ RepeatInit \/ HandlerInit \/ PrereqInit \/ LouvainPairsInit
Next ==
    \/ LouvainNext \/ MasteryNext \/ ThetaNext \/ SelectNext \/ BuildEdges \/ BuildNodes
    \/ SocraticNext \/ CheatNext \/ GuessNext \/ ScoreNext \/ StabilityNext \/ RepeatNext \/ HandlerNext \/ PrereqNext

Spec == Init /\ [][Next]_vars

----------------------------------------------------------------------------
(* Claims on the graph builder *)

\* buildGraph has returned
GraphBuilt == gpc = "done"

\* 0 <= x <= 1
InUnitInterval(x) == RLeq(<<0, 1>>, x) /\ RLeq(x, <<1, 1>>)

\* The weight buildGraph computes for the concepts at positions i < j
WeightAt(i, j) == calculateEdgeWeight(conceptIds[i], conceptIds[j], sessionLogs)

\* graphEdges holds an edge from the concept at i to the concept at j
EdgeAt(i, j) ==
    \E k \in 1..Len(graphEdges) :
        graphEdges[k].source = conceptIds[i] /\ graphEdges[k].target = conceptIds[j]

\* C1: for any session logs and any two concepts calculateEdgeWeight returns
\* a value in [0, 1], and each of the three component scores stored on an
\* edge built by buildGraph is itself in [0, 1].
C1_WeightInUnitInterval ==
    GraphBuilt =>
        /\ \A i, j \in 1..Len(conceptIds) : InUnitInterval(WeightAt(i, j))
        /\ \A k \in 1..Len(graphEdges) :
              /\ InUnitInterval(graphEdges[k].prerequisiteStrength)
              /\ InUnitInterval(graphEdges[k].coOccurrenceRate)
              /\ InUnitInterval(graphEdges[k].confusionCorrelation)

----------------------------------------------------------------------------
(* Claims on louvainCluster *)

CommunityIds == {communities[n] : n \in DOMAIN communities}

\* The position in the run: passes begun, then nodes visited in the pass.
C2_Measure ==
    LET n == Len(nodes) + 1
    IN  CASE lpc = "start"    -> 0
          [] lpc = "loop"     -> 1 + Len(passMoves) * n
          [] lpc = "visit"    -> 1 + (Len(passMoves) - 1) * n + nodeIdx
          [] lpc = "renumber" -> 2 + 20 * n
          [] lpc = "done"     -> 3 + 20 * n

C2_PassesInv ==
    /\ Len(passMoves) <= 20
    /\ lpc \in {"start", "loop", "visit", "renumber", "done"}
    /\ lpc = "visit" => nodeIdx \in 1..Len(nodes)
    /\ \A p \in 1..(Len(passMoves) - 1) : passMoves[p] > 0
    /\ (lpc \in {"renumber", "done"} /\ passMoves # <<>>)
          => (passMoves[Len(passMoves)] = 0 \/ Len(passMoves) = 20)

\* C2: louvainCluster terminates: it never begins a 21st pass over the node
\* list, no step is stuck inside a pass, and every step advances a bounded
\* position; a pass is followed by another only if it moved a node, and the
\* loop is left after the first pass that moved none (or after pass 20).
C2_Terminates ==
    [](C2_PassesInv) /\ [][C2_Measure' > C2_Measure]_vars

\* A run that moved nodes in two passes and stopped after a third, idle one.
C2_Witness ==
    /\ lpc = "done"
    /\ Len(passMoves) = 3
    /\ passMoves[1] > 0 /\ passMoves[2] > 0 /\ passMoves[3] = 0

\* C3: with total edge weight 0 (the empty edge list included) the result
\* maps the i-th node to i (from 0), every node alone in its community, and
\* no gain (no division by the total weight) was ever computed.
C3_ZeroWeightSingletons ==
    (lpc = "done" /\ TotalWeight(edges) = 0)
      => /\ \A i \in 1..Len(nodes) : communities[nodes[i]] = i - 1
         /\ CommunityIds = 0..(Len(nodes) - 1)
         /\ ~divided
         /\ passMoves = <<>>

\* Three nodes joined by zero-weight edges only.
C3_Witness ==
    /\ lpc = "done"
    /\ TotalWeight(edges) = 0
    /\ Len(nodes) = 3
    /\ Len(edges) = 2
    /\ edges[1].source # edges[1].target

\* C4: the community ids returned are exactly 0..c-1, c the number of
\* distinct communities.
C4_DenseIds ==
    lpc = "done" => CommunityIds = 0..(Cardinality(CommunityIds) - 1)

\* A result with merged communities: three nodes, two communities, after the
\* greedy phase left a gap in the ids.
C4_Witness ==
    /\ lpc = "done"
    /\ TotalWeight(edges) > 0
    /\ Len(nodes) = 3
    /\ Cardinality(CommunityIds) = 2
    /\ communities[nodes[1]] = communities[nodes[2]]

----------------------------------------------------------------------------
(* Claims on updateMastery *)

\* C6 as stated: for every p with 0 < p < 1, updateMastery(p, true) > p.
C6_Original ==
    (called /\ lastCorrect /\ 0 < prevPL /\ prevPL < EpsInv) => pL > prevPL

\* C6 (amended): for every p with 0 < p < 0.9999, updateMastery(p, true) > p;
\* for 0.9999 <= p < 1 it returns the clamp 0.9999, which is not above p.
C6_StrictBelowClamp ==
    (called /\ lastCorrect /\ 0 < prevPL /\ prevPL < EpsInv)
      => IF prevPL < EpsInv - 1 THEN pL > prevPL ELSE pL = EpsInv - 1

\* A correct answer at 0.9998 raises the mastery to the clamp.
C6_Witness ==
    called /\ lastCorrect /\ prevPL = EpsInv - 2 /\ pL = EpsInv - 1

\* C7: along correct answers the returned values never decrease; after
\* MaxRun correct answers in a row, from any start, the value is the clamp
\* 0.9999, and a further correct answer leaves it there.
C7_ConvergesToClamp ==
    /\ [][(called /\ lastCorrect') => pL' >= pL]_vars
    /\ [](correctRun = MaxRun => pL = EpsInv - 1)
    /\ [][(pL = EpsInv - 1 /\ lastCorrect') => pL' = EpsInv - 1]_vars

\* A correct answer given at the clamp, returning the clamp again.
C7_Witness ==
    /\ called /\ lastCorrect
    /\ correctRun = MaxRun
    /\ prevPL = EpsInv - 1 /\ pL = EpsInv - 1

\* C8: after any sequence of updates from a prior in [0,1], the mastery lies
\* in [0.0001, 0.9999] (a number, never 0 and never 1).
C8_InClampBand ==
    called => (pL \in Int /\ 1 <= pL /\ pL <= EpsInv - 1)

\* The prior 1 followed by a wrong answer: P(known | wrong) = 1 and the
\* result is held at 0.9999.
C8_Witness ==
    called /\ ~lastCorrect /\ prevPL = EpsInv /\ pL = EpsInv - 1

----------------------------------------------------------------------------
(* Claims on updateTheta *)

\* The call took one of the two early exits: no response, or a posterior
\* mass below 1e-15
EarlyExit ==
    \/ Len(irtResponses) = 0
    \/ DLess(Mass(Unnormalized(irtResponses)), UNDERFLOW)

----------------------------------------------------------------------------
(* Claims on selectNextItem *)

Unused(k) == bank[k].id \notin used
InfoAt(k) == fisherInformation(ability, bank[k])

\* C10: selectNextItem returns null exactly when every item of the bank has
\* its id in usedIds; otherwise it returns an unused item whose Fisher
\* information at theta is maximal among the unused items, the first in the
\* bank among those tied for the maximum.
C10_FirstMaxUnused ==
    spc = "done" =>
        /\ nextItem = <<>> <=> \A k \in 1..Len(bank) : ~Unused(k)
        /\ nextItem # <<>> =>
              \E j \in 1..Len(bank) :
                  /\ Unused(j)
                  /\ nextItem = <<bank[j]>>
                  /\ \A k \in 1..Len(bank) : Unused(k) => ~DLess(InfoAt(j), InfoAt(k))
                  /\ \A k \in 1..(j - 1) : Unused(k) => DLess(InfoAt(k), InfoAt(j))

\* Two different unused items tie for the maximum behind a used item and a
\* less informative one; the earlier of the two is returned
C10_Witness ==
    /\ spc = "done"
    /\ Len(bank) = 3
    /\ \E i, j, k \in 1..3 :
          /\ i < j /\ j < k
          /\ Unused(i) /\ Unused(j) /\ Unused(k)
          /\ DLess(InfoAt(i), InfoAt(j))
          /\ InfoAt(j) = InfoAt(k)
          /\ bank[j] # bank[k]
          /\ nextItem = <<bank[j]>>

----------------------------------------------------------------------------
(* Claims about shouldTriggerSocratic *)

SocraticDone == kpc = "done"

\* One of the three hard exits applies to the parameters of the call
InHardExit ==
    \/ socraticParams.mode = "exam"
    \/ socraticParams.currentPL > 9000
    \/ /\ socraticParams.timeRemainingMs # Undefined
       /\ socraticParams.timeRemainingMs < 60000

\* C11: in exam mode, or with currentPL > 0.9, or with timeRemainingMs given
\* and below 60000, shouldTriggerSocratic returns shouldTrigger = false and
\* priority low, whatever the other inputs are.
C11_HardExitsNeverTrigger ==
    (SocraticDone /\ InHardExit) =>
        /\ socraticDecision.shouldTrigger = FALSE
        /\ socraticDecision.priority = "low"

\* A call that only the time exit stops: every scoring condition that can
\* hold for a correct answer holds
C11_Witness ==
    /\ SocraticDone
    /\ socraticParams.mode = "practice"
    /\ socraticParams.currentPL = 4000
    /\ socraticParams.timeRemainingMs = 59999
    /\ socraticParams.guessProbability = 6001
    /\ socraticParams.wrongStreakOnConcept = 2
    /\ socraticParams.prevPL = 10000
    /\ socraticDecision.shouldTrigger = FALSE

Indicator(b) == IF b THEN 1 ELSE 0

\* The score of the call's parameters
C12_Score ==
    3 * Indicator(socraticParams.guessProbability > 6000)
    + 3 * Indicator(socraticParams.wrongStreakOnConcept >= 2)
    + 2 * Indicator(socraticParams.currentPL - socraticParams.prevPL < -1500)
    + 1 * Indicator(/\ 4000 <= socraticParams.currentPL
                    /\ socraticParams.currentPL <= 7000
                    /\ socraticParams.isCorrect = FALSE)
    + 2 * Indicator(/\ socraticParams.confidenceScore < 3000
                    /\ socraticParams.isCorrect = TRUE)

----------------------------------------------------------------------------
(* Claims about detectCheating *)

CheatDone == cpc = "done"

\* min(count, cap) / cap, the rate of a count normalised into [0, 1]
C13_Rate(count, cap) == <<Min(count, cap), cap>>

\* C13: with totalQuestions > 0 the score is 0.3*tab + 0.3*paste + 0.4*fastHard
\* over the rates tabSwitches / (2 * totalQuestions), pasteEvents /
\* totalQuestions and fastHardAnswers / max(1, 0.3 * totalQuestions), each
\* capped at 1; the score lies in [0, 1] and flagged is true exactly when it
\* is above 0.5. With totalQuestions = 0 the score is 0 and flagged is false.
C13_ScoreAndFlag ==
    CheatDone =>
        IF cheatSignals.totalQuestions = 0
        THEN cheatRisk.score = <<0, 1>> /\ cheatRisk.flagged = FALSE
        ELSE LET T == cheatSignals.totalQuestions
                 tab == C13_Rate(cheatSignals.tabSwitches, 2 * T)
                 paste == C13_Rate(cheatSignals.pasteEvents, T)
                 fastHard == C13_Rate(10 * cheatSignals.fastHardAnswers, Max(10, 3 * T))
                 num == 3 * tab[1] * paste[2] * fastHard[2]
                        + 3 * paste[1] * tab[2] * fastHard[2]
                        + 4 * fastHard[1] * tab[2] * paste[2]
                 den == 10 * tab[2] * paste[2] * fastHard[2]
             IN  /\ cheatRisk.score[1] * den = num * cheatRisk.score[2]
                 /\ cheatRisk.score[2] > 0
                 /\ InUnitInterval(cheatRisk.score)
                 /\ cheatRisk.flagged = (2 * num > den)

\* A flagged session of four questions whose tab switches are past their cap:
\* 0.3 * 1 + 0.3 * 1/4 + 0.4 * 1/1.2 = 17/24
C13_Witness ==
    /\ CheatDone
    /\ cheatSignals.totalQuestions = 4
    /\ cheatSignals.tabSwitches = 9
    /\ cheatSignals.pasteEvents = 1
    /\ cheatSignals.fastHardAnswers = 1
    /\ cheatRisk.score = <<17, 24>>
    /\ cheatRisk.flagged = TRUE

----------------------------------------------------------------------------
(* Claims about detectGuessing *)

GuessDone == dpc = "done"

\* The expected time of the three difficulties, in ms
C15_Expected ==
    CASE guessResponse.difficulty = "easy" -> 15000
      [] guessResponse.difficulty = "medium" -> 25000
      [] guessResponse.difficulty = "hard" -> 40000
      [] OTHER -> 0

\* C15: for an easy, medium or hard item speedFlag is set exactly when
\* (expected - responseTimeMs) / 10000 > 2.5, with expected 15000, 25000 or
\* 40000 ms; a hard item answered in 2000 ms sets it.
C15_SpeedFlagIffZScore ==
    (GuessDone /\ guessResponse.difficulty \in {"easy", "medium", "hard"}) =>
        /\ guessingResult.speedFlag =
              (2 * (C15_Expected - guessResponse.responseTimeMs) > 5 * 10000)
        /\ (guessResponse.difficulty = "hard" /\ guessResponse.responseTimeMs = 2000)
              => guessingResult.speedFlag = TRUE

\* A hard item answered correctly in 2000 ms has set speedFlag
C15_Witness ==
    /\ GuessDone
    /\ guessResponse.difficulty = "hard"
    /\ guessResponse.responseTimeMs = 2000
    /\ guessResponse.isCorrect = TRUE
    /\ guessingResult.speedFlag = TRUE

\* The history ends with four responses on one option
EndsWithFourSame ==
    /\ Len(guessHistory) >= 4
    /\ \A k \in (Len(guessHistory) - 3)..Len(guessHistory) :
          guessHistory[k].selectedOption = guessHistory[Len(guessHistory)].selectedOption

\* C16: patternFlag is set whenever the history ends with four responses that
\* all have the same selectedOption, whatever the isCorrect values of those
\* responses and of the analysed response.
C16_FourSameSetsPattern ==
    (GuessDone /\ EndsWithFourSame) => guessingResult.patternFlag = TRUE

\* A history of exactly four wrong answers on one option, the analysed
\* response being correct: too short for the entropy rule
C16_Witness ==
    /\ GuessDone /\ EndsWithFourSame
    /\ Len(guessHistory) = 4
    /\ \A k \in 1..4 : guessHistory[k].isCorrect = FALSE
    /\ guessResponse.isCorrect = TRUE
    /\ guessingResult.patternFlag = TRUE

----------------------------------------------------------------------------
(* Claims about thetaToScore *)

\* C20: thetaToScore(-4) = 0 and thetaToScore(4) = 100, every theta in
\* [-4, 4] gets an integer score in 0..100, and of two calls the one with the
\* larger theta never gets the smaller score.
C20_EndpointsRangeMonotone ==
    /\ \A k \in DOMAIN scoreCalls :
          /\ scoreCalls[k][1] = -4000 => scoreCalls[k][2] = 0
          /\ scoreCalls[k][1] = 4000 => scoreCalls[k][2] = 100
          /\ (scoreCalls[k][1] >= -4000 /\ scoreCalls[k][1] <= 4000)
                => scoreCalls[k][2] \in 0..100
    /\ \A j, k \in DOMAIN scoreCalls :
          scoreCalls[j][1] <= scoreCalls[k][1] => scoreCalls[j][2] <= scoreCalls[k][2]

\* thetaToScore(-4) followed by thetaToScore(4)
C20_Witness ==
    /\ Len(scoreCalls) = 2
    /\ scoreCalls[1] = <<-4000, 0>>
    /\ scoreCalls[2] = <<4000, 100>>

----------------------------------------------------------------------------
(* Claims about updateStability *)

\* updateStability has been called on the state in stabilityPrev
StabilityCalled == stabilityPrev # <<>>

\* C17: starting from createMasteryState(), a call updateStability(state,
\* false) returns the state with pL, stability, reviewCount and lastReviewMs
\* unchanged, a call with correct = true never lowers stability, and
\* stability never exceeds 365.
C17_StabilityFrame ==
    /\ masteryState.stability <= 365 * 1000
    /\ StabilityCalled =>
          /\ stabilityCorrect = FALSE =>
                /\ masteryState.pL = stabilityPrev[1].pL
                /\ masteryState.stability = stabilityPrev[1].stability
                /\ masteryState.reviewCount = stabilityPrev[1].reviewCount
                /\ masteryState.lastReviewMs = stabilityPrev[1].lastReviewMs
          /\ stabilityCorrect = TRUE =>
                masteryState.stability >= stabilityPrev[1].stability

\* A wrong answer a day after the correct one that brought stability to its
\* cap: the state keeps the cap and the time of the correct review
C17_Witness ==
    /\ StabilityCalled
    /\ stabilityCorrect = FALSE
    /\ masteryState.stability = 365 * 1000
    /\ masteryState.reviewCount >= 197
    /\ masteryState.lastReviewMs < now

----------------------------------------------------------------------------
(* Claims about repeated invocations *)

\* C19: two invocations of an engine operation with identical arguments
\* return identical results, whatever happens between them and whenever they
\* are made.
C19_SameArgumentsSameResult ==
    rpc = "done" => repeatFirst = repeatSecond

----------------------------------------------------------------------------
(* Claims about POST /api/analyze-behavior *)

\* The handler has replied 200 with the analysis
Analysed == hpc = "replied" /\ reply.status = 200

\* The 3PL model gives the item of the posted response k a probability of a
\* correct answer below 0.3 at the ability the learner enters the session
\* with (the prior 0) and at the ability estimated from the session (taken
\* on the grid points next to it, the model being increasing in theta)
C14_PredictedBelow(k) ==
    LET item == ItemOf(request.body.responses[k])
        estimate == reply.body[1].sessionSummary.theta
        below == estimate \div 200
        above == IF estimate % 200 = 0 THEN below ELSE below + 1
    IN  /\ request.body.responses[k].irt # <<>>
        /\ \A t \in {0, below, above} :
              DLess(threeParamLogistic(t, item), MISMATCH_THRESHOLD)

\* C14: in the per-response guessing analysis of POST /analyze-behavior, a
\* response answered correctly on an item for which the 3PL model predicts a
\* probability of a correct answer below 0.3 at the learner's current ability
\* has its mismatch flag set.
C14_MismatchFlagged ==
    Analysed =>
        \A k \in 1..Len(request.body.responses) :
            (request.body.responses[k].isCorrect /\ C14_PredictedBelow(k))
                => reply.body[1].guessingPerResponse[k].flags.mismatch = TRUE

\* The questions whose responses carry irt, in the order of the request
C18_WithIrt ==
    LET withIrt == SelectSeq(request.body.responses, LAMBDA r : r.irt # <<>>)
    IN  [k \in 1..Len(withIrt) |-> withIrt[k].questionId]

\* C18: a response without irt is left out of the list passed to updateTheta
\* and is still part of the guessing analysis and of the mastery trajectory;
\* a POST with behaviorSignals none of whose responses carries irt is
\* answered with status 200 and theta equal to the prior 0.
C18_IrtLessExcluded ==
    /\ Analysed =>
          /\ [k \in 1..Len(handlerIrt) |-> handlerIrt[k].item.id] = C18_WithIrt
          /\ \A k \in 1..Len(request.body.responses) :
                /\ reply.body[1].guessingPerResponse[k].questionId
                      = request.body.responses[k].questionId
                /\ reply.body[1].sessionSummary.masteryTrajectory[k].after
                      = request.body.responses[k].questionId
          /\ Len(reply.body[1].guessingPerResponse) = Len(request.body.responses)
          /\ Len(reply.body[1].sessionSummary.masteryTrajectory)
                = Len(request.body.responses)
    /\ (/\ hpc = "replied"
        /\ request.method = "POST"
        /\ request.body.behaviorSignals # <<>>
        /\ C18_WithIrt = <<>>)
          => /\ reply.status = 200
             /\ reply.body[1].sessionSummary.theta = 0

\* Two responses, the first without irt: only the second reaches
\* updateTheta, both are analysed and both move the mastery
C18_Witness ==
    /\ Analysed
    /\ Len(request.body.responses) = 2
    /\ request.body.responses[1].irt = <<>>
    /\ request.body.responses[2].irt # <<>>
    /\ Len(handlerIrt) = 1
    /\ handlerIrt[1].item.id = "r2"
    /\ reply.body[1].sessionSummary.theta # 0
    /\ Len(reply.body[1].guessingPerResponse) = 2
    /\ Len(reply.body[1].sessionSummary.masteryTrajectory) = 2

----------------------------------------------------------------------------
(* Claims on the moves of louvainCluster *)

\* The node the pass is about to visit
Visited == nodes[nodeIdx]

VisitGains == GainList(nodes, edges, communities, Visited)

\* The highest gain of the visited node is attained by its current community
\* and, with the same value, by another neighbouring community.
TiedWithCurrent ==
    /\ lpc = "visit"
    /\ \E i, j \in 1..Len(VisitGains) :
          /\ VisitGains[i][1] = communities[Visited]
          /\ VisitGains[j][1] # communities[Visited]
          /\ VisitGains[i][2] = VisitGains[j][2]
          /\ \A k \in 1..Len(VisitGains) : VisitGains[k][2] <= VisitGains[i][2]

\* C21: in a pass, a node whose highest gain is attained both by its current
\* community and, with equal value, by another neighbouring community stays
\* in its current community; a node is moved only to a community whose gain
\* is strictly positive.
C21_TiesKeepCurrent ==
    [][/\ TiedWithCurrent => communities'[Visited] = communities[Visited]
       /\ (lpc = "visit" /\ communities'[Visited] # communities[Visited])
             => \E i \in 1..Len(VisitGains) :
                   /\ VisitGains[i][1] = communities'[Visited]
                   /\ VisitGains[i][2] > 0]_vars

----------------------------------------------------------------------------
(* Claims on confusionCorrelation *)

\* The calendar-day buckets that contain a wrong answer on the concept
WrongDays(concept, logs) ==
    {DayOf(logs[k]) : k \in {m \in 1..Len(logs) :
        ToLowerCase(logs[m].concept) = ToLowerCase(concept) /\ ~logs[m].isCorrect}}

\* Buckets with a wrong answer on A and on B over buckets with a wrong answer
\* on A, 0 when there is none
BucketFraction(conceptA, conceptB, logs) ==
    IF WrongDays(conceptA, logs) = {} THEN <<0, 1>>
    ELSE <<Cardinality(WrongDays(conceptA, logs) \cap WrongDays(conceptB, logs)),
           Cardinality(WrongDays(conceptA, logs))>>

REqual(x, y) == x[1] * y[2] = y[1] * x[2]

\* C22: confusionCorrelation(A, B) equals the number of calendar-day buckets
\* that contain a wrong answer on A and also a wrong answer on B, divided by
\* the number of calendar-day buckets that contain a wrong answer on A; it is
\* 0 when A has no wrong answer.
C22_ConfusionIsBucketFraction ==
    GraphBuilt =>
        \A i, j \in 1..Len(conceptIds) :
            i < j => REqual(confusionCorrelation(conceptIds[i], conceptIds[j], sessionLogs),
                            BucketFraction(conceptIds[i], conceptIds[j], sessionLogs))

----------------------------------------------------------------------------
(* Claims on prerequisiteStrength *)

\* C23: the prerequisite lookup is symmetric: prerequisiteStrength(a, b) =
\* prerequisiteStrength(b, a) for every pair of concepts of the table
\* PREREQUISITE_STRENGTH, and the value is 0 when neither direction is listed.
C23_LookupSymmetric ==
    ppc = "done" =>
        /\ REqual(prereqForward, prereqBackward)
        /\ (/\ Listed(ToLowerCase(prereqArgs[1]), ToLowerCase(prereqArgs[2])) = Undefined
            /\ Listed(ToLowerCase(prereqArgs[2]), ToLowerCase(prereqArgs[1])) = Undefined)
               => REqual(prereqForward, <<0, 1>>)

----------------------------------------------------------------------------
(* Claims about the wrong streak of POST /api/analyze-behavior *)

\* The incorrect responses in a row at the end of the list that are on the
\* concept of the last response
RECURSIVE SameConceptStreak(_, _)
SameConceptStreak(responses, k) ==
    IF k = 0 THEN 0
    ELSE IF responses[k].isCorrect
            \/ responses[k].concept # responses[Len(responses)].concept
         THEN 0
         ELSE 1 + SameConceptStreak(responses, k - 1)

\* C24: the wrongStreakOnConcept that POST /analyze-behavior passes to the
\* intervention rule is the number of consecutive incorrect responses at the
\* end of the session that are on the same concept as the last response;
\* incorrect responses on other concepts do not count towards it.
C24_StreakOnLastConcept ==
    (Analysed /\ Len(request.body.responses) > 0) =>
        handlerStreak = <<SameConceptStreak(request.body.responses,
                                            Len(request.body.responses))>>

----------------------------------------------------------------------------
(* Claims about the trigger conditions of shouldTriggerSocratic *)

\* C25: in practice mode, with currentPL <= 0.9 and no time constraint,
\* shouldTriggerSocratic returns shouldTrigger = true whenever at least one
\* of its five trigger conditions holds (high guess probability, repeated
\* wrong answers, mastery drop, wrong answer in the learning zone, low
\* confidence on a correct answer).
C25_AnyConditionTriggers ==
    (/\ SocraticDone
     /\ socraticParams.mode = "practice"
     /\ socraticParams.currentPL <= 9000
     /\ socraticParams.timeRemainingMs = Undefined
     /\ \E k \in 1..5 : TriggerConditions(socraticParams)[k][2])
        => socraticDecision.shouldTrigger = TRUE

----------------------------------------------------------------------------
(* Claims on the modularity of the partitions of louvainCluster *)

\* A_ij, the weight between two nodes as the adjacency holds it
WeightBetween(i, j) == MapGet(Adjacency(nodes, edges)[i], j, 0)

\* Q = (1/2m) * sum_ij [A_ij - k_i*k_j/(2m)] * delta(c_i, c_j) of a
\* partition, times (2m)^2 > 0, m the total edge weight
Modularity(com) ==
    LET deg == Degree(nodes, edges)
        m2  == 2 * TotalWeight(edges)
    IN  SumSeq([i \in 1..Len(nodes) |->
            SumSeq([j \in 1..Len(nodes) |->
                IF com[nodes[i]] = com[nodes[j]]
                THEN WeightBetween(nodes[i], nodes[j]) * m2
                       - deg[nodes[i]] * deg[nodes[j]]
                ELSE 0])])

\* C26: each node move performed by louvainCluster does not decrease the
\* modularity Q of the current partition; hence the returned partition has
\* modularity at least that of the all-singletons partition.
C26_MovesNeverLowerModularity ==
    [][/\ lpc = "visit" => Modularity(communities') >= Modularity(communities)
       /\ lpc' = "done" => Modularity(communities')
                              >= Modularity(InitialCommunities(nodes))]_vars

----------------------------------------------------------------------------
(* Claims on updateMastery after an incorrect answer *)

\* The last call was updateMastery(prevPL, false) with prevPL in [lo, hi]
WrongAnswerOn(lo, hi) == called /\ ~lastCorrect /\ lo <= prevPL /\ prevPL <= hi

\* C27 as stated: an incorrect answer never raises the stored mastery:
\* updateMastery(p, false) <= p for every p in [0.0001, 0.9999].
C27_Original == WrongAnswerOn(1, EpsInv - 1) => pL <= prevPL

\* C27 (amended): updateMastery(p, false) <= p for every p in
\* [0.1029, 0.9999]; for p in [0.0001, 0.1027], below the fixed point 18/175
\* of the update, the learning transition outweighs the evidence and the
\* value returned is above p.
C27_WrongLowersAboveFixedPoint ==
    /\ WrongAnswerOn(1029, EpsInv - 1) => pL <= prevPL
    /\ WrongAnswerOn(1, 1027) => pL > prevPL

\* An incorrect answer at 0.5 lowers the mastery to 0.1911, one at 0.0001
\* would raise it
C27_Witness ==
    /\ WrongAnswerOn(5000, 5000)
    /\ pL = 1911
    /\ updateMastery(1, FALSE) = 900

----------------------------------------------------------------------------
(* Claims about the speed flag on items that are not hard *)

\* C28: for responses with responseTimeMs >= 0, the speed flag is never
\* raised on an item whose difficulty is easy, medium or unrecognised; it is
\* raised only on hard items answered in under 15000 ms.
C28_SpeedFlagOnlyOnFastHard ==
    (GuessDone /\ guessResponse.responseTimeMs >= 0) =>
        /\ guessResponse.difficulty # "hard" => guessingResult.speedFlag = FALSE
        /\ guessingResult.speedFlag = TRUE =>
              /\ guessResponse.difficulty = "hard"
              /\ guessResponse.responseTimeMs < 15000

\* A medium item and an item of unrecognised difficulty answered at once,
\* without the flag; the flag on a hard item answered in 14999 ms
C28_Witness ==
    /\ GuessDone
    /\ guessResponse.responseTimeMs = 0
    /\ guessResponse.difficulty = "expert"
    /\ guessingResult.speedFlag = FALSE
    /\ speedAnomalyFlag(0, "medium") = FALSE
    /\ speedAnomalyFlag(14999, "hard") = TRUE

----------------------------------------------------------------------------
(* Claims about a single behaviour signal in detectCheating *)

\* How many of tabSwitches, pasteEvents and fastHardAnswers are not 0
NonZeroSignals ==
    Cardinality({k \in 1..3 :
        <<cheatSignals.tabSwitches, cheatSignals.pasteEvents,
          cheatSignals.fastHardAnswers>>[k] # 0})

\* C29: no single behaviour signal can flag a session on its own: when two of
\* tabSwitches, pasteEvents and fastHardAnswers are 0, detectCheating returns
\* flagged = false for every value of the third and every totalQuestions; at
\* least two signals must be non-zero for flagged to be true.
C29_OneSignalNeverFlags ==
    CheatDone =>
        /\ NonZeroSignals <= 1 => cheatRisk.flagged = FALSE
        /\ cheatRisk.flagged = TRUE => NonZeroSignals >= 2

\* Every question a fast hard answer and nothing else: the score is 0.4, the
\* highest a single signal reaches, and the session is not flagged
C29_Witness ==
    /\ CheatDone
    /\ cheatSignals.totalQuestions = MaxQuestions
    /\ cheatSignals.fastHardAnswers = MaxQuestions
    /\ cheatSignals.tabSwitches = 0
    /\ cheatSignals.pasteEvents = 0
    /\ cheatRisk.score = <<2, 5>>
    /\ cheatRisk.flagged = FALSE

----------------------------------------------------------------------------
(* Claims on the nodes without edges in louvainCluster *)

\* The nodes that are an endpoint of no edge
IsolatedNodes ==
    {n \in Range(nodes) : \A k \in 1..Len(edges) : edges[k].source # n /\ edges[k].target # n}

\* n is the only member of its community
AloneInCommunity(n) == \A m \in Range(nodes) \ {n} : communities[m] # communities[n]

\* C30: on a graph with positive total weight, a node with no incident edge
\* is never moved and no other node is ever moved into its community: in the
\* result it is the only member of its community.
C30_IsolatedNodeStaysAlone ==
    /\ []((lpc \in {"loop", "visit", "renumber", "done"} /\ TotalWeight(edges) > 0)
             => \A n \in IsolatedNodes : AloneInCommunity(n))
    /\ [][lpc = "visit" => \A n \in IsolatedNodes : communities'[n] = communities[n]]_vars

\* A result on three nodes in which a node moved during the first pass and
\* the node without edges is alone
C30_Witness ==
    /\ lpc = "done"
    /\ TotalWeight(edges) > 0
    /\ Len(nodes) = 3
    /\ passMoves[1] > 0
    /\ IsolatedNodes # {}
    /\ \A n \in IsolatedNodes : AloneInCommunity(n)
    /\ \E n \in Range(nodes) : ~AloneInCommunity(n)

=============================================================================
